---- MODULE Spec2Model ----
(***************************************************************************)
(* A model of the touch listener of the chart library                      *)
(* (src/src/charting/listener/BarLineChartTouchListener.ts): the touch     *)
(* mode state machine, the live and the saved touch matrix, and the calls  *)
(* the gesture handlers make on the chart.                                 *)
(*                                                                         *)
(* Numbers.  A matrix is the affine map x -> sx*x + tx, y -> sy*y + ty     *)
(* (the handlers only ever post-translate and post-scale it).  The scale   *)
(* entries sx, sy are kept in halves (2 is the scale 1.0), translations    *)
(* and pixels are integers, and the scale an event carries is the exact    *)
(* fraction <<n, d>>.  An event is delivered only when its result is an    *)
(* exact number of the model within MaxTrans (Representable).              *)
(***************************************************************************)
EXTENDS Integers, Sequences, FiniteSets, TLC

VARIABLES
    chart,                  \* the capability flags the chart answers with
    scrollEnabled,          \* the chart's scroll state (disableScroll/enableScroll)
    mTouchMode,             \* ChartTouchListener.mTouchMode
    mLastGesture,           \* ChartTouchListener.mLastGesture
    mLastHighlighted,       \* ChartTouchListener.mLastHighlighted
    mMatrix,                \* the live touch matrix
    mSavedMatrix,           \* the matrix saved at gesture start
    mTouchPointCenter,      \* the pinch focal point saved at pinch begin
    mDecelerationVelocity,  \* release velocity kept for the fling
    panActive,              \* the pan recognizer is between ACTIVE and END/CANCELLED
    pinchActive,            \* the pinch recognizer is between ACTIVE and END/CANCELLED
    pinchStartMatrix,       \* history: the live matrix when the running pinch began
    handler,                \* history: the handler that ran last
    calls,                  \* the calls on the chart made by the last handler
    queries,                \* how often the last handler queried the highlighter
    tagCounters,            \* the module's gesture tag counters
    instances,              \* the tags of the listeners constructed so far
    tapGestureHandler,      \* the listener's tap handler, Null before it is created
    doubleTapGestureHandler,\* the listener's double-tap handler, likewise
    doubleTapPending,       \* the double-tap recognizer has seen a first tap
    tapPending,             \* the tap recognizer has seen a tap it has not delivered
    mData,                  \* the highlighter's chart data, Null or its series
    maxHighlightDistance,   \* the chart's maximum highlight distance, in pixels
    mHighlightBuffer,       \* the highlighter's candidates of the last query
    highlightResult,        \* the last highlighter query and what it gave
    mDataSets,              \* the data container's series
    mBounds,                \* the data container's eight bounds
    dataReturn,             \* what the last operation of the container returned
    lookupIndex,            \* the series index the last lookup was given
    panGestureHandler,      \* the listener's pan handler, Null before it is created
    pinchGestureHandler,    \* the listener's pinch handler, likewise
    leftAttached,           \* the handlers on the chart view the listener has dropped
    createdHandlers,        \* history: the handlers created since the last dispose
    mXAxis,                 \* the x axis: its switches and its entries
    mRenderGridLinesBuffer, \* the renderer's buffer of grid line positions
    canvas                  \* the canvas: its saved states and the paths drawn on it

vars == <<chart, scrollEnabled, mTouchMode, mLastGesture, mLastHighlighted, mMatrix,
          mSavedMatrix, mTouchPointCenter,
          mDecelerationVelocity, panActive, pinchActive, pinchStartMatrix, handler, calls,
          queries, tagCounters, instances, tapGestureHandler, doubleTapGestureHandler,
          doubleTapPending, tapPending, mData, maxHighlightDistance, mHighlightBuffer,
          highlightResult, mDataSets, mBounds, dataReturn, lookupIndex,
          panGestureHandler, pinchGestureHandler, leftAttached, createdHandlers,
          mXAxis, mRenderGridLinesBuffer, canvas>>

\* the highlighter, its chart's data and the outcome of its last query
highlighterVars == <<mData, maxHighlightDistance, mHighlightBuffer, highlightResult>>

\* the data container
containerVars == <<mDataSets, mBounds, dataReturn, lookupIndex>>

\* the pan and the pinch handler objects and what became of the handlers
disposeVars == <<panGestureHandler, pinchGestureHandler, leftAttached, createdHandlers>>

\* the x axis, the renderer's buffer of grid line positions and the canvas
rendererVars == <<mXAxis, mRenderGridLinesBuffer, canvas>>

\* what the gesture handlers never touch
wiringVars == <<tagCounters, instances, highlighterVars, containerVars, disposeVars,
               rendererVars>>

\* the handler objects and the state of their recognizers
managerVars == <<tapGestureHandler, doubleTapGestureHandler, doubleTapPending,
                 tapPending>>

listenerVars == <<mTouchMode, mLastGesture, mLastHighlighted, mMatrix, mSavedMatrix,
                  mTouchPointCenter, mDecelerationVelocity>>

(***************************************************************************)
(* Bounds of the model.                                                    *)
(***************************************************************************)
\* translations of a matrix stay within -MaxTrans .. MaxTrans
MaxTrans == 1
\* the number of listeners constructed in one process
MaxInstances == 1001

\* the entries the series of the data container hold together at most
MaxEntries == 3
\* the entries of the x axis at most
MaxAxisEntries == 2
\* the states the chart saves on the canvas before the renderer draws
MaxSaves == 1

(***************************************************************************)
(* The view port handler's settings (the handler itself is not part of the *)
(* sources at hand; the spec gives its contract).                          *)
(***************************************************************************)
MinScaleX == 2
MaxScaleX == 4
MinScaleY == 2
MaxScaleY == 4
OffsetLeft == 1
OffsetTop == 2
OffsetBottom == 1
ChartHeight == 4

(***************************************************************************)
(* Touch modes, gestures, gesture states.                                  *)
(***************************************************************************)
NONE == "NONE"
DRAG == "DRAG"
X_ZOOM == "X_ZOOM"
Y_ZOOM == "Y_ZOOM"
PINCH_ZOOM == "PINCH_ZOOM"
POST_ZOOM == "POST_ZOOM"
SINGLE_TAP == "SINGLE_TAP"
TouchModes == {NONE, DRAG, X_ZOOM, Y_ZOOM, PINCH_ZOOM, POST_ZOOM}
ZoomModes == {X_ZOOM, Y_ZOOM, PINCH_ZOOM}

ACTIVE == "ACTIVE"
END == "END"
CANCELLED == "CANCELLED"
BEGAN == "BEGAN"

Null == [none |-> TRUE]

(***************************************************************************)
(* The matrix (android.graphics.Matrix as the handlers use it).            *)
(***************************************************************************)
Mat(sx, sy, tx, ty) == [sx |-> sx, sy |-> sy, tx |-> tx, ty |-> ty]

\* new Matrix(): the identity (scale 1.0 is 2 halves)
Identity == Mat(2, 2, 0, 0)

\* a * n/d, exact when d divides a * n
MulFrac(a, f) == (a * f[1]) \div f[2]
ExactFrac(a, f) == (a * f[1]) % f[2] = 0

PostTranslate(m, dx, dy) == [m EXCEPT !.tx = @ + dx, !.ty = @ + dy]

\* postScale(sx, sy, px, py): scale about the pivot (px, py)
PostScale(m, fx, fy, px, py) ==
    Mat(MulFrac(m.sx, fx), MulFrac(m.sy, fy),
        MulFrac(m.tx, fx) + MulFrac(px, <<fx[2] - fx[1], fx[2]>>),
        MulFrac(m.ty, fy) + MulFrac(py, <<fy[2] - fy[1], fy[2]>>))

ExactScale(m, fx, fy, px, py) ==
    /\ ExactFrac(m.sx, fx) /\ ExactFrac(m.sy, fy)
    /\ ExactFrac(m.tx, fx) /\ ExactFrac(px, <<fx[2] - fx[1], fx[2]>>)
    /\ ExactFrac(m.ty, fy) /\ ExactFrac(py, <<fy[2] - fy[1], fy[2]>>)

Representable(m) ==
    /\ m.tx \in -MaxTrans..MaxTrans
    /\ m.ty \in -MaxTrans..MaxTrans

\* f < 1, for a fraction with a positive denominator
LessThanOne(f) == f[1] < f[2]

One == <<1, 1>>


(***************************************************************************)
(* The chart: capability flags and registered listeners.                   *)
(***************************************************************************)
EventNames == {"pan", "pinch", "zoom", "tap", "doubleTap", "translate"}

\* gesture options: a key holds the set of its values, empty when the key is
\* absent; NoOptions is chart.xGestureOptions || {}
NoOptions == [gestureTag |-> {}, numberOfTaps |-> {}, waitFor |-> {}]

BaseChart ==
    [dragX |-> TRUE, dragY |-> TRUE, highlightPerDrag |-> TRUE,
     scaleX |-> TRUE, scaleY |-> TRUE, pinchZoom |-> TRUE,
     zoomedPanWith2Pointers |-> FALSE, anyAxisInverted |-> FALSE,
     dragOffset |-> FALSE, listeners |-> EventNames,
     highlightPerTap |-> FALSE, doubleTapToZoom |-> FALSE, data |-> [sets |-> <<0, 1>>],
     tapGestureOptions |-> NoOptions, doubleTapGestureOptions |-> NoOptions]

\* the charts of the model: the pan flags vary freely with the other flags at
\* their defaults; the zoom flags vary freely, with and without an inverted
\* axis, with the pan flags at their defaults; and one chart has no listener
PanCharts ==
    {[BaseChart EXCEPT !.dragX = f[1], !.dragY = f[2], !.highlightPerDrag = f[3],
                       !.zoomedPanWith2Pointers = f[4], !.dragOffset = f[5]] :
        f \in BOOLEAN \X BOOLEAN \X BOOLEAN \X BOOLEAN \X BOOLEAN}
ZoomCharts ==
    {[BaseChart EXCEPT !.scaleX = f[1], !.scaleY = f[2], !.pinchZoom = f[3],
                       !.anyAxisInverted = f[4]] :
        f \in BOOLEAN \X BOOLEAN \X BOOLEAN \X BOOLEAN}
ChartConfigs ==
    PanCharts \cup ZoomCharts \cup {[BaseChart EXCEPT !.listeners = {}]}

isDragXEnabled == chart.dragX
isDragYEnabled == chart.dragY
isDragEnabled == chart.dragX \/ chart.dragY
isHighlightPerDragEnabled == chart.highlightPerDrag
isScaleXEnabled == chart.scaleX
isScaleYEnabled == chart.scaleY
isPinchZoomEnabled == chart.pinchZoom
isAnyAxisInverted == chart.anyAxisInverted
hasNoDragOffset == ~chart.dragOffset
hasListeners(name) == name \in chart.listeners

(***************************************************************************)
(* The view port handler, as the spec gives it: the scale of the live      *)
(* matrix stays within the zoom limits, and the canZoom queries agree      *)
(* with that clamp.                                                        *)
(***************************************************************************)
Clamp(v, lo, hi) == IF v < lo THEN lo ELSE IF v > hi THEN hi ELSE v

\* ViewPortHandler.refresh(matrix, chart, true): limit the scale
refresh(m) ==
    [m EXCEPT !.sx = Clamp(@, MinScaleX, MaxScaleX),
              !.sy = Clamp(@, MinScaleY, MaxScaleY)]

canZoomInMoreX == mMatrix.sx < MaxScaleX
canZoomOutMoreX == mMatrix.sx > MinScaleX
canZoomInMoreY == mMatrix.sy < MaxScaleY
canZoomOutMoreY == mMatrix.sy > MinScaleY
isFullyZoomedOut == ~canZoomOutMoreX /\ ~canZoomOutMoreY

(***************************************************************************)
(* Calls on the chart.                                                     *)
(***************************************************************************)
Call(name) == [name |-> name, args |-> <<>>]
Notify(name, args) == [name |-> "notify:" \o name, args |-> args]
NotifyIf(name, args) == IF hasListeners(name) THEN {Notify(name, args)} ELSE {}

(***************************************************************************)
(* Events of the gesture recognizers.                                      *)
(***************************************************************************)
Velocities == {<<1, 2>>}
Translations == {<<1, 0>>, <<0, 1>>}
Pointers == {1, 2}
\* positions of the two fingers: x0, y0, x1, y1
Positions == {<<0, 0, 2, 1>>, <<0, 0, 1, 2>>, <<1, 1, 2, 2>>}
Focals == {<<2, 2>>}
\* the scale of a pinch move, as a fraction; 0 and -1 are malformed
Scales == {<<1, 2>>, <<1, 1>>, <<2, 1>>, <<0, 1>>, <<-1, 1>>}
\* what the highlighter answers for the touch point of an event
HighlightResults == {Null, [x |-> 1, y |-> 10, dataSetIndex |-> 0]}

PanStateEvents ==
    [state : {ACTIVE, END, CANCELLED, BEGAN}, velocity : Velocities]
PanTouchEvents ==
    [state : {ACTIVE, BEGAN}, translation : Translations,
     numberOfPointers : Pointers, highlight : HighlightResults]
PinchStateEvents ==
    [state : {ACTIVE, END, CANCELLED, BEGAN}, positions : Positions, focal : Focals]
PinchTouchEvents ==
    [state : {ACTIVE, BEGAN}, scale : Scales]

Abs(n) == IF n < 0 THEN -n ELSE n

(***************************************************************************)
(* The highlighter.  Its queries are pure functions of the chart's data,   *)
(* the transformers of the two axes and the touch point.  Domain values of *)
(* a touch are fractions <<n, d>>; pixel distances are compared by their   *)
(* squares.  The series and the transformers are not the highlighter's     *)
(* code: they are modelled as the specification gives them.                *)
(***************************************************************************)
LEFT == "LEFT"
RIGHT == "RIGHT"
AxisDependency == {LEFT, RIGHT}

\* Number.MAX_VALUE: above every distance of the model
MAX_VALUE == 1000000

\* pixels per domain unit of the transformers: the axes share x and have
\* independent y scales
PxPerX == 5
PxPerY(axis) == IF axis = LEFT THEN 1 ELSE 2

\* Transformer.getPixelForValues
getPixelForValues(axis, x, y) == [x |-> x * PxPerX, y |-> y * PxPerY(axis)]

\* Transformer.getValuesByTouchPoint
getValuesByTouchPoint(axis, x, y) == [x |-> <<x, PxPerX>>, y |-> <<y, PxPerY(axis)>>]

\* |x - xVal| in units of 1 / xVal[2]
xDistance(x, xVal) == Abs(x * xVal[2] - xVal[1])

\* DataSet.getEntriesForXValue: the entries at exactly that x
getEntriesForXValue(set, xVal) ==
    SelectSeq(set.entries, LAMBDA e : xDistance(e.x, xVal) = 0)

\* DataSet.getEntryForXValue(xVal, NaN, Rounding.CLOSEST): the entry nearest
\* to that x, the first in scan order among equally near ones; none for a
\* series without entries
getEntryForXValue(set, xVal) ==
    IF set.entries = <<>> THEN Null
    ELSE LET n == Len(set.entries)
             d(i) == xDistance(set.entries[i].x, xVal)
             first == CHOOSE i \in 1..n :
                        \A j \in 1..n : d(i) < d(j) \/ (d(i) = d(j) /\ i <= j)
         IN set.entries[first]

\* a result: a returned value or a raised error
Returned(value) == [raised |-> FALSE, value |-> value]
Raised(error) == [raised |-> TRUE, value |-> [error |-> error]]

\* lines 41-45
getValsForTouch(x, y) == getValuesByTouchPoint(LEFT, x, y)

\* mutant: a series without entries yields a candidate at the origin
buildHighlightsPlaceholder(set, dataSetIndex, xVal) ==
    IF set.entries = <<>>
    THEN <<[x |-> 0, y |-> 0, xPx |-> 0, yPx |-> 0,
            dataSetIndex |-> dataSetIndex, axis |-> set.axis]>>
    ELSE LET entries == getEntriesForXValue(set, <<getEntryForXValue(set, xVal).x, 1>>)
         IN [i \in 1..Len(entries) |->
                [x |-> entries[i].x, y |-> entries[i].y,
                 xPx |-> getPixelForValues(set.axis, entries[i].x, entries[i].y).x,
                 yPx |-> getPixelForValues(set.axis, entries[i].x, entries[i].y).y,
                 dataSetIndex |-> dataSetIndex, axis |-> set.axis]]

\* mutant: every series is projected through the left axis' transformer
buildHighlightsLeftPixels(set, dataSetIndex, xVal) ==
    LET atX == getEntriesForXValue(set, xVal)
        closest == getEntryForXValue(set, xVal)
        entries == IF Len(atX) = 0 /\ closest # Null
                   THEN getEntriesForXValue(set, <<closest.x, 1>>)
                   ELSE atX
    IN [i \in 1..Len(entries) |->
            [x |-> entries[i].x, y |-> entries[i].y,
             xPx |-> getPixelForValues(LEFT, entries[i].x, entries[i].y).x,
             yPx |-> getPixelForValues(LEFT, entries[i].x, entries[i].y).y,
             dataSetIndex |-> dataSetIndex, axis |-> set.axis]]

\* lines 138-170
buildHighlights(set, dataSetIndex, xVal) ==
    LET atX == getEntriesForXValue(set, xVal)
        closest == getEntryForXValue(set, xVal)
        entries == IF Len(atX) = 0 /\ closest # Null
                   THEN getEntriesForXValue(set, <<closest.x, 1>>)
                   ELSE atX
    IN [i \in 1..Len(entries) |->
            LET e == entries[i]
                pixels == getPixelForValues(set.axis, e.x, e.y)
            IN [x |-> e.x, y |-> e.y, xPx |-> pixels.x, yPx |-> pixels.y,
                dataSetIndex |-> dataSetIndex, axis |-> set.axis]]

\* mutant: the series that cannot be highlighted are included
RECURSIVE highlightsFromAll(_, _, _)
highlightsFromAll(sets, i, xVal) ==
    IF i >= Len(sets) THEN <<>>
    ELSE buildHighlights(sets[i + 1], i, xVal) \o highlightsFromAll(sets, i + 1, xVal)

\* the loop of lines 118-123, from the series of index i on
RECURSIVE highlightsFrom(_, _, _)
highlightsFrom(sets, i, xVal) ==
    IF i >= Len(sets) THEN <<>>
    ELSE (IF ~sets[i + 1].highlightEnabled THEN <<>>
          ELSE buildHighlights(sets[i + 1], i, xVal))
         \o highlightsFrom(sets, i + 1, xVal)

\* mutant: the candidates of the last query stay in the buffer
keepBuffer(buffer) == buffer

\* line 112: this.mHighlightBuffer = []
clearBuffer(buffer) == <<>>

\* lines 111-127: the buffer is cleared and the series' candidates are pushed
getHighlightsAtXValue(data, xVal) ==
    clearBuffer(mHighlightBuffer)
        \o (IF data = Null THEN <<>> ELSE highlightsFrom(data.sets, 0, xVal))

\* lines 81-96: the candidate list is an array of object literals, and the
\* loop's first step calls closestValues.get(i), which an array does not have
getMinimumDistance(closestValues, pos, axis) ==
    IF Len(closestValues) > 0 THEN Raised("TypeError") ELSE Returned(MAX_VALUE)

\* lines 213-217, squared
getDistance(x1, y1, x2, y2) == (x1 - x2) * (x1 - x2) + (y1 - y2) * (y1 - y2)

\* the loop of lines 188-199, from the candidate of index i on; distance is
\* squared
RECURSIVE closestFrom(_, _, _, _, _, _, _)
closestFrom(closestValues, i, x, y, axis, closest, distance) ==
    IF i >= Len(closestValues) THEN closest
    ELSE LET high == closestValues[i + 1]
             cDistance == getDistance(x, y, high.xPx, high.yPx)
         IN IF (axis = "null" \/ high.axis = axis) /\ cDistance < distance
            THEN closestFrom(closestValues, i + 1, x, y, axis, high, cDistance)
            ELSE closestFrom(closestValues, i + 1, x, y, axis, closest, distance)

\* lines 184-202
getClosestHighlightByPixel(closestValues, x, y, axis, minSelectionDistance) ==
    closestFrom(closestValues, 0, x, y, axis, Null,
                minSelectionDistance * minSelectionDistance)

\* line 65: the axis of the smaller minimum distance, the right one on a tie
chooseAxis(leftAxisMinDist, rightAxisMinDist) ==
    IF leftAxisMinDist < rightAxisMinDist THEN LEFT ELSE RIGHT

\* lines 55-70
getHighlightForX(data, xVal, x, y, maxDistance) ==
    LET closestValues == getHighlightsAtXValue(data, xVal)
        leftAxisMinDist == getMinimumDistance(closestValues, y, LEFT)
        rightAxisMinDist == getMinimumDistance(closestValues, y, RIGHT)
    IN IF Len(closestValues) = 0 THEN Returned(Null)
       ELSE IF leftAxisMinDist.raised THEN leftAxisMinDist
       ELSE IF rightAxisMinDist.raised THEN rightAxisMinDist
       ELSE LET axis == chooseAxis(leftAxisMinDist.value, rightAxisMinDist.value)
            IN Returned(getClosestHighlightByPixel(closestValues, x, y, axis,
                                                   maxDistance))

\* history of the queries: what a query at a touch point gave
answerOf(x, y, result, candidates) ==
    [x |-> x, y |-> y, result |-> result, candidates |-> candidates]

\* lines 24-31: the query at a touch point; the candidates stay in the buffer.
\* The touch point of the query before and the answers of all queries so far
\* are kept as history, with whether the touch point was queried before.
getHighlight(x, y) ==
    /\ mHighlightBuffer' = getHighlightsAtXValue(mData, getValsForTouch(x, y).x)
    /\ highlightResult' =
           [x |-> x, y |-> y,
            result |-> getHighlightForX(mData, getValsForTouch(x, y).x, x, y,
                                        maxHighlightDistance),
            previous |-> IF handler = "getHighlight"
                         THEN <<highlightResult.x, highlightResult.y>> ELSE <<>>,
            repeated |-> \E a \in highlightResult.answers : a.x = x /\ a.y = y,
            answers |-> highlightResult.answers
                          \cup {answerOf(x, y,
                                    getHighlightForX(mData, getValsForTouch(x, y).x, x, y,
                                                     maxHighlightDistance),
                                    getHighlightsAtXValue(mData, getValsForTouch(x, y).x))}]
    /\ handler' = "getHighlight"
    /\ calls' = {}
    /\ queries' = 1
    /\ UNCHANGED <<mData, maxHighlightDistance, tagCounters, instances>>
    /\ UNCHANGED containerVars
    /\ UNCHANGED <<disposeVars, rendererVars>>
    /\ UNCHANGED <<chart, scrollEnabled, panActive, pinchActive, pinchStartMatrix>>
    /\ UNCHANGED listenerVars
    /\ UNCHANGED managerVars

\* before the first query
NoQuery == [x |-> 0, y |-> 0, result |-> Returned(Null), previous |-> <<>>,
            repeated |-> FALSE, answers |-> {}]

\* a listener whose highlighter is not modelled
highlighterUnused ==
    /\ mData = Null
    /\ maxHighlightDistance = 0
    /\ mHighlightBuffer = <<>>
    /\ highlightResult = NoQuery

\* the series of the model: without entries, with one, with three, and with
\* none at x = 1 and two at x = 2
EntryLists ==
    {<<>>,
     <<[x |-> 1, y |-> 1]>>,
     <<[x |-> 0, y |-> 0], [x |-> 1, y |-> 2], [x |-> 2, y |-> 1]>>,
     <<[x |-> 0, y |-> 1], [x |-> 2, y |-> 0], [x |-> 2, y |-> 3]>>}

HighlightSets ==
    [highlightEnabled : BOOLEAN, axis : AxisDependency, entries : EntryLists]

\* chart.getData(): none, one series, two series
HighlightDatas ==
    {Null} \cup {[sets |-> <<s>>] : s \in HighlightSets}
           \cup {[sets |-> <<s, t>>] : s, t \in HighlightSets}

MaxDistances == {1, 3, 100}
TouchXs == {5, 7}
TouchYs == {0, 2}

(***************************************************************************)
(* The data container (ChartData): its series and the eight bounds it      *)
(* keeps.  A series is not the container's code: it is modelled as the     *)
(* specification gives it, an ordered list of entries with its own x and y *)
(* bounds, which it keeps exact when an entry is added or removed.         *)
(***************************************************************************)
Min2(a, b) == IF a < b THEN a ELSE b
Max2(a, b) == IF a > b THEN a ELSE b

\* DataSet.calcMinMax: the series' own bounds, over the given entries
RECURSIVE seriesBounds(_)
seriesBounds(entries) ==
    IF entries = <<>>
    THEN [yMin |-> MAX_VALUE, yMax |-> -MAX_VALUE, xMin |-> MAX_VALUE, xMax |-> -MAX_VALUE]
    ELSE LET e == Head(entries)
             b == seriesBounds(Tail(entries))
         IN [yMin |-> Min2(e.y, b.yMin), yMax |-> Max2(e.y, b.yMax),
             xMin |-> Min2(e.x, b.xMin), xMax |-> Max2(e.x, b.xMax)]

\* a series object: its identity, its axis, its entries and its bounds
NewSeries(id, axis, entries) ==
    [id |-> id, axis |-> axis, entries |-> entries, bounds |-> seriesBounds(entries)]

\* DataSet.addEntry: a series rejects no entry but none
seriesAccepts(e) == e # Null

seriesAddEntry(set, e) ==
    [set EXCEPT !.entries = Append(@, e),
                !.bounds = [yMin |-> Min2(e.y, @.yMin), yMax |-> Max2(e.y, @.yMax),
                            xMin |-> Min2(e.x, @.xMin), xMax |-> Max2(e.x, @.xMax)]]

\* the first position of e in the entries, 0 if it is not among them
indexOfEntry(entries, e) ==
    IF \E i \in 1..Len(entries) : entries[i] = e
    THEN CHOOSE i \in 1..Len(entries) :
             entries[i] = e /\ \A j \in 1..(i - 1) : entries[j] # e
    ELSE 0

removeAt(seq, i) == SubSeq(seq, 1, i - 1) \o SubSeq(seq, i + 1, Len(seq))

\* DataSet.removeEntry: the entry is taken out and the series' bounds are
\* computed anew
seriesRemoveEntry(set, e) ==
    LET entries == removeAt(set.entries, indexOfEntry(set.entries, e))
    IN [set EXCEPT !.entries = entries, !.bounds = seriesBounds(entries)]

\* the fields of lines 9-31
InitialBounds ==
    [mYMax |-> -MAX_VALUE, mYMin |-> MAX_VALUE, mXMax |-> -MAX_VALUE, mXMin |-> MAX_VALUE,
     mLeftAxisMax |-> -MAX_VALUE, mLeftAxisMin |-> MAX_VALUE,
     mRightAxisMax |-> -MAX_VALUE, mRightAxisMin |-> MAX_VALUE]

\* mutant: the entry is folded into the overall bounds only
calcMinMaxForEntryOverallOnly(b, e, axis) ==
    [b EXCEPT !.mYMax = IF @ < e.y THEN e.y ELSE @,
              !.mYMin = IF @ > e.y THEN e.y ELSE @,
              !.mXMax = IF @ < e.x THEN e.x ELSE @,
              !.mXMin = IF @ > e.x THEN e.x ELSE @]

\* lines 387-401
calcMinMaxForEntry(b, e, axis) ==
    LET c == [b EXCEPT !.mYMax = IF @ < e.y THEN e.y ELSE @,
                       !.mYMin = IF @ > e.y THEN e.y ELSE @,
                       !.mXMax = IF @ < e.x THEN e.x ELSE @,
                       !.mXMin = IF @ > e.x THEN e.x ELSE @]
    IN IF axis = LEFT
       THEN [c EXCEPT !.mLeftAxisMax = IF @ < e.y THEN e.y ELSE @,
                      !.mLeftAxisMin = IF @ > e.y THEN e.y ELSE @]
       ELSE [c EXCEPT !.mRightAxisMax = IF @ < e.y THEN e.y ELSE @,
                      !.mRightAxisMin = IF @ > e.y THEN e.y ELSE @]

\* lines 403-422
calcMinMaxForDataSet(b, d) ==
    LET c == [b EXCEPT !.mYMax = IF @ < d.bounds.yMax THEN d.bounds.yMax ELSE @,
                       !.mYMin = IF @ > d.bounds.yMin THEN d.bounds.yMin ELSE @,
                       !.mXMax = IF @ < d.bounds.xMax THEN d.bounds.xMax ELSE @,
                       !.mXMin = IF @ > d.bounds.xMin THEN d.bounds.xMin ELSE @]
    IN IF d.axis = LEFT
       THEN [c EXCEPT !.mLeftAxisMax = IF @ < d.bounds.yMax THEN d.bounds.yMax ELSE @,
                      !.mLeftAxisMin = IF @ > d.bounds.yMin THEN d.bounds.yMin ELSE @]
       ELSE [c EXCEPT !.mRightAxisMax = IF @ < d.bounds.yMax THEN d.bounds.yMax ELSE @,
                      !.mRightAxisMin = IF @ > d.bounds.yMin THEN d.bounds.yMin ELSE @]

\* the loop of lines 119-121
RECURSIVE calcMinMaxForDataSets(_, _)
calcMinMaxForDataSets(b, sets) ==
    IF sets = <<>> THEN b
    ELSE calcMinMaxForDataSets(calcMinMaxForDataSet(b, Head(sets)), Tail(sets))

\* lines 526-539: the first series of the axis, none if there is none
getFirstOf(sets, axis) ==
    IF \E i \in 1..Len(sets) : sets[i].axis = axis
    THEN sets[CHOOSE i \in 1..Len(sets) :
                  sets[i].axis = axis /\ \A j \in 1..(i - 1) : sets[j].axis # axis]
    ELSE Null

\* the loops of lines 133-139 and 148-154: the bounds of one axis, starting
\* from those of its first series
RECURSIVE axisBounds(_, _, _)
axisBounds(b, sets, axis) ==
    IF sets = <<>> THEN b
    ELSE LET d == Head(sets)
             c == IF d.axis = axis
                  THEN [min |-> IF d.bounds.yMin < b.min THEN d.bounds.yMin ELSE b.min,
                        max |-> IF d.bounds.yMax > b.max THEN d.bounds.yMax ELSE b.max]
                  ELSE b
         IN axisBounds(c, Tail(sets), axis)

\* mutant: the bounds of the series are folded into the bounds as they are
calcMinMaxNoReset(b, sets) == calcMinMaxForDataSets(b, sets)

\* lines 111-159
calcMinMax(b, sets) ==
    LET reset == [b EXCEPT !.mYMax = -MAX_VALUE, !.mYMin = MAX_VALUE,
                           !.mXMax = -MAX_VALUE, !.mXMin = MAX_VALUE]
        all == calcMinMaxForDataSets(reset, sets)
        firstLeft == getFirstOf(sets, LEFT)
        firstRight == getFirstOf(sets, RIGHT)
        left == IF firstLeft # Null
                THEN axisBounds([min |-> firstLeft.bounds.yMin,
                                 max |-> firstLeft.bounds.yMax], sets, LEFT)
                ELSE [min |-> MAX_VALUE, max |-> -MAX_VALUE]
        right == IF firstRight # Null
                 THEN axisBounds([min |-> firstRight.bounds.yMin,
                                  max |-> firstRight.bounds.yMax], sets, RIGHT)
                 ELSE [min |-> MAX_VALUE, max |-> -MAX_VALUE]
    IN [all EXCEPT !.mLeftAxisMax = left.max, !.mLeftAxisMin = left.min,
                   !.mRightAxisMax = right.max, !.mRightAxisMin = right.min]

\* Array.indexOf on the series list, from 0; -1 if the series is not in it
indexOfDataSet(sets, d) ==
    IF \E i \in 1..Len(sets) : sets[i].id = d.id
    THEN (CHOOSE i \in 1..Len(sets) : sets[i].id = d.id) - 1
    ELSE -1

\* the number of entries of all the series
RECURSIVE entriesInside(_)
entriesInside(sets) ==
    IF sets = <<>> THEN 0 ELSE Len(Head(sets).entries) + entriesInside(Tail(sets))

\* what an operation of the container leaves alone
containerOnly(name, returned) ==
    /\ handler' = name
    /\ dataReturn' = returned
    /\ lookupIndex' = 0
    /\ calls' = {}
    /\ queries' = 0
    /\ UNCHANGED <<tagCounters, instances, highlighterVars, disposeVars, rendererVars>>
    /\ UNCHANGED <<chart, scrollEnabled, panActive, pinchActive, pinchStartMatrix>>
    /\ UNCHANGED listenerVars
    /\ UNCHANGED managerVars

\* lines 318-324
addDataSet(d) ==
    /\ IF d = Null
       THEN UNCHANGED <<mDataSets, mBounds>>
       ELSE /\ entriesInside(mDataSets) + Len(d.entries) <= MaxEntries
            /\ mBounds' = calcMinMaxForDataSet(mBounds, d)
            /\ mDataSets' = Append(mDataSets, d)
    /\ containerOnly("addDataSet", "undefined")

\* lines 333-345
removeDataSet(d) ==
    IF d = Null
    THEN UNCHANGED <<mDataSets, mBounds>> /\ containerOnly("removeDataSet", "false")
    ELSE LET index == indexOfDataSet(mDataSets, d)
         IN IF index >= 0
            THEN /\ mDataSets' = removeAt(mDataSets, index + 1)
                 /\ mBounds' = calcMinMax(mBounds, removeAt(mDataSets, index + 1))
                 /\ containerOnly("removeDataSet", "true")
            ELSE /\ UNCHANGED <<mDataSets, mBounds>>
                 /\ containerOnly("removeDataSet", "false")

\* mutant: the index is checked against the number of series only, and
\* splice takes a negative index from the end
removeDataSetAtIndexNoLowerCheck(index) ==
    IF index >= Len(mDataSets)
    THEN UNCHANGED <<mDataSets, mBounds>> /\ containerOnly("removeDataSetAtIndex", "false")
    ELSE LET at == IF index < 0 THEN Max2(Len(mDataSets) + index, 0) ELSE index
         IN /\ mDataSets' = removeAt(mDataSets, at + 1)
            /\ mBounds' = calcMinMax(mBounds, removeAt(mDataSets, at + 1))
            /\ containerOnly("removeDataSetAtIndex", "true")

\* lines 354-360
removeDataSetAtIndex(index) ==
    IF index >= Len(mDataSets) \/ index < 0
    THEN UNCHANGED <<mDataSets, mBounds>> /\ containerOnly("removeDataSetAtIndex", "false")
    ELSE /\ mDataSets' = removeAt(mDataSets, index + 1)
         /\ mBounds' = calcMinMax(mBounds, removeAt(mDataSets, index + 1))
         /\ containerOnly("removeDataSetAtIndex", "true")

\* lines 369-379
addEntry(e, dataSetIndex) ==
    /\ IF Len(mDataSets) > dataSetIndex /\ dataSetIndex >= 0
       THEN LET set == mDataSets[dataSetIndex + 1]
            IN IF ~seriesAccepts(e)
               THEN UNCHANGED <<mDataSets, mBounds>>
               ELSE /\ entriesInside(mDataSets) < MaxEntries
                    /\ mDataSets' = [mDataSets EXCEPT ![dataSetIndex + 1] =
                                         seriesAddEntry(set, e)]
                    /\ mBounds' = calcMinMaxForEntry(mBounds, e, set.axis)
       ELSE UNCHANGED <<mDataSets, mBounds>>
    /\ containerOnly("addEntry", "undefined")

\* what removeEntry (lines 430-446) returns
removeEntryRemoves(e, dataSetIndex) ==
    /\ e # Null
    /\ dataSetIndex < Len(mDataSets)
    /\ dataSetIndex >= 0
    /\ indexOfEntry(mDataSets[dataSetIndex + 1].entries, e) > 0

\* what removeEntry does to the series and the bounds
removeEntryEffect(e, dataSetIndex) ==
    IF removeEntryRemoves(e, dataSetIndex)
    THEN LET sets == [mDataSets EXCEPT ![dataSetIndex + 1] = seriesRemoveEntry(@, e)]
         IN /\ mDataSets' = sets
            /\ mBounds' = calcMinMax(mBounds, sets)
    ELSE UNCHANGED <<mDataSets, mBounds>>

\* lines 430-446
removeEntry(e, dataSetIndex) ==
    /\ removeEntryEffect(e, dataSetIndex)
    /\ containerOnly("removeEntry",
                     IF removeEntryRemoves(e, dataSetIndex) THEN "true" ELSE "false")

\* lines 456-466: a negative index reads no series, and the lookup on it raises
removeEntryForXValue(xValue, dataSetIndex) ==
    IF dataSetIndex >= Len(mDataSets)
    THEN UNCHANGED <<mDataSets, mBounds>> /\ containerOnly("removeEntryForXValue", "false")
    ELSE IF dataSetIndex < 0
    THEN /\ UNCHANGED <<mDataSets, mBounds>>
         /\ containerOnly("removeEntryForXValue", "TypeError")
    ELSE LET e == getEntryForXValue(mDataSets[dataSetIndex + 1], <<xValue, 1>>)
         IN IF e = Null
            THEN /\ UNCHANGED <<mDataSets, mBounds>>
                 /\ containerOnly("removeEntryForXValue", "false")
            ELSE /\ removeEntryEffect(e, dataSetIndex)
                 /\ containerOnly("removeEntryForXValue",
                        IF removeEntryRemoves(e, dataSetIndex) THEN "true" ELSE "false")

\* lines 657-662
clearValues ==
    /\ mDataSets' = <<>>
    /\ mBounds' = calcMinMax(mBounds, <<>>)
    /\ containerOnly("clearValues", "undefined")

\* a lookup changes nothing of the container
lookup(name, index, returned) ==
    /\ UNCHANGED <<mDataSets, mBounds>>
    /\ handler' = name
    /\ dataReturn' = returned
    /\ lookupIndex' = index
    /\ calls' = {}
    /\ queries' = 0
    /\ UNCHANGED <<tagCounters, instances, highlighterVars, disposeVars, rendererVars>>
    /\ UNCHANGED <<chart, scrollEnabled, panActive, pinchActive, pinchStartMatrix>>
    /\ UNCHANGED listenerVars
    /\ UNCHANGED managerVars

\* lines 307-311
getDataSetByIndex(index) ==
    lookup("getDataSetByIndex", index,
           IF index < 0 \/ index >= Len(mDataSets) THEN "null" ELSE "series")

\* lines 284-289: the series at the highlight's index is asked for the entry
\* at the highlight's x; an index below 0 reads no series and the call on it
\* raises
getEntryForHighlight(highlight) ==
    lookup("getEntryForHighlight", highlight.dataSetIndex,
           IF highlight.dataSetIndex >= Len(mDataSets) THEN "null"
           ELSE IF highlight.dataSetIndex < 0 THEN "TypeError"
           ELSE IF getEntryForXValue(mDataSets[highlight.dataSetIndex + 1],
                                     <<highlight.x, 1>>) = Null
                THEN "null" ELSE "entry")

\* a listener whose chart's data container is not modelled
containerUnused ==
    /\ mDataSets = <<>>
    /\ mBounds = InitialBounds
    /\ dataReturn = "undefined"
    /\ lookupIndex = 0

\* the entries and the series objects of the model: two series of the left
\* axis and one of the right axis
DataEntries == {[x |-> 1, y |-> 2], [x |-> 2, y |-> 1]}
SeriesIds == {1, 2, 3}
axisOfSeries(id) == IF id = 3 THEN RIGHT ELSE LEFT

\* the series objects outside the container: without entries or with one
OtherSeries ==
    {NewSeries(id, axisOfSeries(id), entries) :
        id \in {i \in SeriesIds : \A k \in 1..Len(mDataSets) : mDataSets[k].id # i},
        entries \in {<<>>} \cup {<<e>> : e \in DataEntries}}

SeriesInside == {mDataSets[k] : k \in 1..Len(mDataSets)}

DataSetIndexes == (-1)..Cardinality(SeriesIds)

\* the highlights a caller hands to getEntryForHighlight
LookupHighlights ==
    {[x |-> e.x, y |-> e.y, dataSetIndex |-> index] :
        e \in DataEntries, index \in DataSetIndexes}

(***************************************************************************)
(* The x axis renderer (XAxisRenderer): the grid lines it draws on a       *)
(* canvas.  The axis, the canvas and the transformer are not the           *)
(* renderer's code; they are modelled as the specification gives them.     *)
(***************************************************************************)
\* a canvas as it is handed to the renderer: nothing saved, no clip
NewCanvas == [stack |-> <<>>, clip |-> "none", paths |-> <<>>]

\* Canvas.getSaveCount before a save: the number of saved states
saveCount(c) == Len(c.stack)

\* Canvas.save: the clip is pushed
save(c) == [c EXCEPT !.stack = Append(@, c.clip)]

\* Canvas.clipRect
clipRect(c, rect) == [c EXCEPT !.clip = rect]

\* Canvas.restoreToCount: the states saved since the count are dropped and
\* the clip of the first of them is back
restoreToCount(c, count) ==
    IF count < Len(c.stack)
    THEN [c EXCEPT !.clip = c.stack[count + 1], !.stack = SubSeq(@, 1, count)]
    ELSE c

\* Canvas.drawPath of the line from (x, contentBottom) to (x, contentTop)
drawPath(c, x) == [c EXCEPT !.paths = Append(@, [x |-> x, clip |-> c.clip])]

\* Transformer.pointValuesToPixel: the pairs of the buffer, in place
pointValuesToPixel(positions) ==
    [i \in 1..Len(positions) |->
        IF i % 2 = 1 THEN getPixelForValues(LEFT, positions[i], 0).x
        ELSE getPixelForValues(LEFT, 0, positions[i]).y]

\* line 227 and lines 239-241: the buffer is kept if it has two places for
\* each entry, and is a new empty array otherwise
gridLinesBuffer(buffer, axis) ==
    IF Len(buffer) # axis.mEntryCount * 2 THEN <<>> ELSE buffer

\* lines 244-247: each pair of places of the buffer gets its entry's value
fillPositions(positions, axis) ==
    [i \in 1..Len(positions) |-> axis.mEntries[(i + 1) \div 2]]

\* lines 256-259 and 281-290: one path for each pair of the buffer
RECURSIVE drawGridLines(_, _)
drawGridLines(c, positions) ==
    IF Len(positions) < 1 THEN c
    ELSE drawGridLines(drawPath(c, positions[1]), SubSeq(positions, 3, Len(positions)))

\* what a step on the axis, the canvas or the renderer leaves alone
rendererOnly(name) ==
    /\ handler' = name
    /\ calls' = {}
    /\ queries' = 0
    /\ UNCHANGED <<tagCounters, instances, highlighterVars, containerVars, disposeVars>>
    /\ UNCHANGED <<chart, scrollEnabled, panActive, pinchActive, pinchStartMatrix>>
    /\ UNCHANGED listenerVars
    /\ UNCHANGED managerVars

\* lines 231-262
renderGridLines ==
    /\ IF ~mXAxis.drawGridLines \/ ~mXAxis.enabled
       THEN UNCHANGED <<mRenderGridLinesBuffer, canvas>>
       ELSE LET clipRestoreCount == saveCount(canvas)
                clipped == clipRect(save(canvas), "grid")
                positions == pointValuesToPixel(
                                 fillPositions(gridLinesBuffer(mRenderGridLinesBuffer, mXAxis),
                                               mXAxis))
            IN /\ mRenderGridLinesBuffer' = positions
               /\ canvas' = restoreToCount(
                                drawGridLines([clipped EXCEPT !.paths = <<>>], positions),
                                clipRestoreCount)
    /\ UNCHANGED mXAxis
    /\ rendererOnly("renderGridLines")

\* AxisRenderer.computeAxisValues, called at line 58: the axis gets its
\* entries and their number
computeAxisValues(entries) ==
    /\ mXAxis' = [mXAxis EXCEPT !.mEntries = entries, !.mEntryCount = Len(entries)]
    /\ UNCHANGED <<mRenderGridLinesBuffer, canvas>>
    /\ rendererOnly("computeAxisValues")

\* the switches of the axis that line 233 reads
setEnabled(enabled) ==
    /\ mXAxis.enabled # enabled
    /\ mXAxis' = [mXAxis EXCEPT !.enabled = enabled]
    /\ UNCHANGED <<mRenderGridLinesBuffer, canvas>>
    /\ rendererOnly("setEnabled")

setDrawGridLines(enabled) ==
    /\ mXAxis.drawGridLines # enabled
    /\ mXAxis' = [mXAxis EXCEPT !.drawGridLines = enabled]
    /\ UNCHANGED <<mRenderGridLinesBuffer, canvas>>
    /\ rendererOnly("setDrawGridLines")

\* the chart saves the canvas before it draws, and restores it
canvasSave ==
    /\ Len(canvas.stack) < MaxSaves
    /\ canvas' = clipRect(save(canvas), "content")
    /\ UNCHANGED <<mXAxis, mRenderGridLinesBuffer>>
    /\ rendererOnly("canvasSave")

canvasRestore ==
    /\ Len(canvas.stack) > 0
    /\ canvas' = restoreToCount(canvas, Len(canvas.stack) - 1)
    /\ UNCHANGED <<mXAxis, mRenderGridLinesBuffer>>
    /\ rendererOnly("canvasRestore")

\* the renderer before its first call (lines 226-227), an axis with its
\* defaults and no entries, and a new canvas
rendererUnused ==
    /\ mXAxis = [enabled |-> TRUE, drawGridLines |-> TRUE, mEntries |-> <<>>,
                 mEntryCount |-> 0]
    /\ mRenderGridLinesBuffer = <<>>
    /\ canvas = NewCanvas

\* the values an axis may get as its entries, increasing
AxisValues == {1, 2, 3}
AxisEntryLists ==
    UNION {{s \in [1..n -> AxisValues] : \A i \in 1..(n - 1) : s[i] < s[i + 1]} :
              n \in 0..MaxAxisEntries}

(***************************************************************************)
(* The gesture handler tags (lines 23-26) and the constructor.             *)
(***************************************************************************)
TAP_HANDLER_TAG == 12450000
DOUBLE_TAP_HANDLER_TAG == 12451000
PINCH_HANDLER_TAG == 12452000
PAN_HANDLER_TAG == 12453000

TagKinds == {"tap", "doubleTap", "pinch", "pan"}

\* the counters when the module is loaded
InitialTags ==
    [tap |-> TAP_HANDLER_TAG, doubleTap |-> DOUBLE_TAP_HANDLER_TAG,
     pinch |-> PINCH_HANDLER_TAG, pan |-> PAN_HANDLER_TAG]

\* X_HANDLER_TAG++ for the four counters (lines 73-76)
nextTags(counters) == [k \in TagKinds |-> counters[k] + 1]

\* constructor: the new listener takes the counters' values as its tags
constructor ==
    /\ Len(instances) < MaxInstances
    /\ instances' = Append(instances, tagCounters)
    /\ tagCounters' = nextTags(tagCounters)
    /\ handler' = "constructor"
    /\ calls' = {}
    /\ queries' = 0
    /\ UNCHANGED <<chart, scrollEnabled, panActive, pinchActive, pinchStartMatrix>>
    /\ UNCHANGED listenerVars
    /\ UNCHANGED managerVars
    /\ UNCHANGED highlighterVars
    /\ UNCHANGED containerVars
    /\ UNCHANGED <<disposeVars, rendererVars>>

(***************************************************************************)
(* The helpers of the listener.                                            *)
(***************************************************************************)
\* never assigned by the listener
mClosestDataSetToTouch == Null

inverted ==
    \/ mClosestDataSetToTouch = Null /\ isAnyAxisInverted
    \/ mClosestDataSetToTouch # Null /\ FALSE

getTrans(x, y) ==
    [x |-> x - OffsetLeft,
     y |-> IF inverted THEN -(y - OffsetTop)
                       ELSE -(ChartHeight - y - OffsetBottom)]

getXDist(e) == Abs(e.positions[1] - e.positions[3])
getYDist(e) == Abs(e.positions[2] - e.positions[4])

\* saveTouchStart: the matrix the saved matrix is set to
saveTouchStart == mMatrix

\* stopDeceleration
stopDeceleration == [x |-> 0, y |-> 0]

\* mutant: the translation is composed onto the live matrix
performDragCumulative(distanceX, distanceY) ==
    PostTranslate(mMatrix, distanceX, IF inverted THEN -distanceY ELSE distanceY)

\* performDrag: the live matrix after mMatrix.set(mSavedMatrix) and postTranslate
performDragMatrix(distanceX, distanceY) ==
    PostTranslate(mSavedMatrix, distanceX, IF inverted THEN -distanceY ELSE distanceY)

performDragCalls(distanceX, distanceY) ==
    NotifyIf("translate", <<distanceX, IF inverted THEN -distanceY ELSE distanceY>>)

\* h !== this.mLastHighlighted compares references, and every query of the
\* highlighter builds its result anew
SameReference(h, last) == FALSE

\* performHighlightDrag / performHighlight: is the highlight set?
highlightChanges(h) == h # Null /\ ~SameReference(h, mLastHighlighted)

(***************************************************************************)
(* The pan recognizer's handlers.                                          *)
(***************************************************************************)
\* mutant: the pan handlers run whatever the chart enables
panHandlersOnAlways == TRUE

\* lines 253 and 278: the guard of the pan handlers
panHandlersOn == isHighlightPerDragEnabled \/ isDragEnabled

\* mutant: CANCELLED is not handled as END
isTerminalStateEndOnly(state) == state = END

\* case GestureState.END: case GestureState.CANCELLED: (lines 261-262, 342-343)
isTerminalState(state) == state \in {END, CANCELLED}

\* the recognizer's own state: ACTIVE begins a gesture, END/CANCELLED ends it
panLifecycle(state) ==
    CASE state = ACTIVE -> TRUE
      [] state \in {END, CANCELLED} -> FALSE
      [] OTHER -> panActive

\* mutant: the velocity is stored and then cleared by stopDeceleration
releaseVelocityCleared(e) == [x |-> 0, y |-> 0]

\* lines 265-268: the deceleration velocity after a drag ends
releaseVelocity(e) == [x |-> e.velocity[1], y |-> e.velocity[2]]

\* mutant: the pan's end resets whatever mode there is
panEndResetsAnyMode == mTouchMode # NONE

\* line 263: the mode a pan END/CANCELLED resets
panEndResets == mTouchMode = DRAG

onPanGestureState(e) ==
    /\ e.state = ACTIVE => ~panActive
    /\ e.state = BEGAN => ~panActive
    /\ handler' = "onPanGestureState"
    /\ UNCHANGED wiringVars
    /\ queries' = 0
    /\ panActive' = panLifecycle(e.state)
    /\ UNCHANGED <<chart, pinchActive, pinchStartMatrix, scrollEnabled>>
    /\ UNCHANGED <<mLastGesture, mLastHighlighted, mMatrix, mTouchPointCenter>>
    /\ IF ~panHandlersOn
       THEN /\ calls' = {}
            /\ UNCHANGED <<mTouchMode, mSavedMatrix, mDecelerationVelocity>>
       ELSE CASE e.state = ACTIVE ->
                   /\ mDecelerationVelocity' = stopDeceleration
                   /\ mSavedMatrix' = saveTouchStart
                   /\ calls' = {}
                   /\ UNCHANGED mTouchMode
              [] isTerminalState(e.state) ->
                   IF panEndResets
                   THEN /\ mTouchMode' = NONE
                        /\ mDecelerationVelocity' = releaseVelocity(e)
                        /\ calls' = {Call("invalidate")}
                        /\ UNCHANGED mSavedMatrix
                   ELSE /\ calls' = {}
                        /\ UNCHANGED <<mTouchMode, mSavedMatrix, mDecelerationVelocity>>
              [] OTHER ->
                   /\ calls' = {}
                   /\ UNCHANGED <<mTouchMode, mSavedMatrix, mDecelerationVelocity>>

\* mutant: the two-pointer rule is dropped
shouldPanAnyPointers(e) == ~isFullyZoomedOut \/ ~hasNoDragOffset

\* line 296
shouldPan(e) ==
    /\ ~isFullyZoomedOut \/ ~hasNoDragOffset
    /\ ~chart.zoomedPanWith2Pointers \/ e.numberOfPointers = 2

\* lines 295-311: does the move reach performHighlightDrag (one query, line 476)?
panHighlightDrags(e) ==
    /\ panHandlersOn /\ e.state = ACTIVE
    /\ mTouchMode = NONE
    /\ ~shouldPan(e)
    /\ isHighlightPerDragEnabled

onPanGestureTouch(e) ==
    /\ e.state = ACTIVE <=> panActive
    /\ handler' = "onPanGestureTouch"
    /\ UNCHANGED wiringVars
    /\ queries' = IF panHighlightDrags(e) THEN 1 ELSE 0
    /\ UNCHANGED <<chart, panActive, pinchActive, pinchStartMatrix>>
    /\ UNCHANGED <<mSavedMatrix, mTouchPointCenter,
                   mDecelerationVelocity>>
    /\ IF ~panHandlersOn \/ e.state # ACTIVE
       THEN /\ calls' = {}
            /\ UNCHANGED <<mTouchMode, mLastGesture, mLastHighlighted, mMatrix,
                           scrollEnabled>>
       ELSE CASE mTouchMode = DRAG ->
                   /\ Representable(performDragMatrix(e.translation[1], e.translation[2]))
                   /\ mLastGesture' = DRAG
                   /\ mMatrix' = refresh(performDragMatrix(e.translation[1],
                                                           e.translation[2]))
                   /\ scrollEnabled' = FALSE
                   /\ calls' = NotifyIf("pan", <<>>)
                                 \cup {Call("disableScroll"), Call("invalidate")}
                                 \cup performDragCalls(e.translation[1], e.translation[2])
                   /\ UNCHANGED <<mTouchMode, mLastHighlighted>>
              [] mTouchMode = NONE ->
                   IF shouldPan(e)
                   THEN IF isDragXEnabled /\ isDragYEnabled
                        THEN /\ scrollEnabled' = FALSE
                             /\ mLastGesture' = DRAG
                             /\ mTouchMode' = DRAG
                             /\ calls' = {Call("disableScroll")}
                             /\ UNCHANGED <<mLastHighlighted, mMatrix>>
                        ELSE /\ calls' = {}
                             /\ UNCHANGED <<mTouchMode, mLastGesture, mLastHighlighted,
                                            mMatrix, scrollEnabled>>
                   ELSE IF isHighlightPerDragEnabled
                        THEN /\ scrollEnabled' = FALSE
                             /\ mLastGesture' = DRAG
                             /\ mLastHighlighted' =
                                    IF highlightChanges(e.highlight)
                                    THEN e.highlight ELSE mLastHighlighted
                             /\ calls' = {Call("disableScroll"),
                                          Call("getHighlightByTouchPoint")}
                                   \cup IF highlightChanges(e.highlight)
                                        THEN {[name |-> "highlight",
                                               args |-> <<e.highlight>>]}
                                        ELSE {}
                             /\ UNCHANGED <<mTouchMode, mMatrix>>
                        ELSE /\ calls' = {}
                             /\ UNCHANGED <<mTouchMode, mLastGesture, mLastHighlighted,
                                            mMatrix, scrollEnabled>>
              [] OTHER ->
                   /\ calls' = {}
                   /\ UNCHANGED <<mTouchMode, mLastGesture, mLastHighlighted, mMatrix,
                                  scrollEnabled>>

(***************************************************************************)
(* The pinch recognizer's handlers.                                        *)
(***************************************************************************)
pinchHandlersOn == isScaleXEnabled \/ isScaleYEnabled

pinchLifecycle(state) ==
    CASE state = ACTIVE -> TRUE
      [] state \in {END, CANCELLED} -> FALSE
      [] OTHER -> pinchActive

\* history: the live matrix at the begin of the running pinch, Null between pinches
pinchHistory(state) ==
    CASE state = ACTIVE -> mMatrix
      [] state \in {END, CANCELLED} -> Null
      [] OTHER -> pinchStartMatrix

\* mutant: the distance comparison picks the axis with less spread
pinchBeginModeLessSpread(e) ==
    IF isPinchZoomEnabled
    THEN PINCH_ZOOM
    ELSE IF isScaleXEnabled # isScaleYEnabled
         THEN (IF isScaleXEnabled THEN X_ZOOM ELSE Y_ZOOM)
         ELSE (IF getXDist(e) < getYDist(e) THEN X_ZOOM ELSE Y_ZOOM)

\* mutant: a pinch begins in POST_ZOOM
pinchBeginModePostZoom(e) == POST_ZOOM

\* lines 328-336: the touch mode a pinch begins in
pinchBeginMode(e) ==
    IF isPinchZoomEnabled
    THEN PINCH_ZOOM
    ELSE IF isScaleXEnabled # isScaleYEnabled
         THEN (IF isScaleXEnabled THEN X_ZOOM ELSE Y_ZOOM)
         ELSE (IF getXDist(e) > getYDist(e) THEN X_ZOOM ELSE Y_ZOOM)

\* mutant: the mode is reset whatever it is
pinchEndResetsAlways == TRUE

\* mutant: only PINCH_ZOOM is reset
pinchEndResetsPinchOnly == mTouchMode = PINCH_ZOOM

\* mutant: PINCH_ZOOM is missing from the modes that are reset
pinchEndResetsAxisModes == mTouchMode \in {X_ZOOM, Y_ZOOM, POST_ZOOM}

\* lines 344-349: the modes a pinch END/CANCELLED resets
pinchEndResets == mTouchMode \in {X_ZOOM, Y_ZOOM, PINCH_ZOOM, POST_ZOOM}

\* mutant: chart.enableScroll() sits inside the if
pinchEndScrollCallsInIf == IF pinchEndResets THEN {Call("enableScroll")} ELSE {}

\* line 357: chart.enableScroll() follows the if, whatever the mode
pinchEndScrollCalls == {Call("enableScroll")}

onPinchGestureState(e) ==
    /\ e.state = ACTIVE => ~pinchActive
    /\ e.state = BEGAN => ~pinchActive
    /\ handler' = "onPinchGestureState"
    /\ UNCHANGED wiringVars
    /\ queries' = 0
    /\ pinchActive' = pinchLifecycle(e.state)
    /\ pinchStartMatrix' = pinchHistory(e.state)
    /\ UNCHANGED <<chart, panActive>>
    /\ UNCHANGED <<mLastGesture, mLastHighlighted, mMatrix, mDecelerationVelocity>>
    /\ IF ~pinchHandlersOn
       THEN /\ calls' = {}
            /\ UNCHANGED <<mTouchMode, mSavedMatrix, mTouchPointCenter,
                           scrollEnabled>>
       ELSE CASE e.state = ACTIVE ->
                   /\ mSavedMatrix' = saveTouchStart
                   /\ scrollEnabled' = FALSE
                   /\ mTouchMode' = pinchBeginMode(e)
                   /\ mTouchPointCenter' = [x |-> e.focal[1], y |-> e.focal[2]]
                   /\ calls' = {Call("disableScroll")}
              [] isTerminalState(e.state) ->
                   /\ IF pinchEndResets
                      THEN /\ mTouchMode' = NONE
                           /\ calls' = {Call("calculateOffsets"), Call("invalidate")}
                                         \cup pinchEndScrollCalls
                      ELSE /\ calls' = pinchEndScrollCalls
                           /\ UNCHANGED mTouchMode
                   /\ scrollEnabled' = (pinchEndScrollCalls # {} \/ scrollEnabled)
                   /\ UNCHANGED <<mSavedMatrix, mTouchPointCenter>>
              [] OTHER ->
                   /\ calls' = {}
                   /\ UNCHANGED <<mTouchMode, mSavedMatrix, mTouchPointCenter,
                                  scrollEnabled>>

\* is the scale of a pinch move a zoom-out? (scale < 1)
isZoomingOut(scale) == LessThanOne(scale)

canZoomMoreX(scale) == IF isZoomingOut(scale) THEN canZoomOutMoreX ELSE canZoomInMoreX
canZoomMoreY(scale) == IF isZoomingOut(scale) THEN canZoomOutMoreY ELSE canZoomInMoreY

\* the branch of onPinchGestureTouch that handles the event: the mode whose
\* branch runs, or NONE when no branch does (lines 374-430)
pinchBranch ==
    CASE mTouchMode = PINCH_ZOOM -> PINCH_ZOOM
      [] mTouchMode = X_ZOOM /\ isScaleXEnabled -> X_ZOOM
      [] mTouchMode = Y_ZOOM /\ isScaleYEnabled -> Y_ZOOM
      [] OTHER -> NONE

\* the scale factors the branch applies and reports
pinchScaleX(scale) ==
    CASE pinchBranch = PINCH_ZOOM -> (IF isScaleXEnabled THEN scale ELSE One)
      [] pinchBranch = X_ZOOM -> scale
      [] OTHER -> One
pinchScaleY(scale) ==
    CASE pinchBranch = PINCH_ZOOM -> (IF isScaleYEnabled THEN scale ELSE One)
      [] pinchBranch = Y_ZOOM -> scale
      [] OTHER -> One

\* mutant: the zoom-bounds check is dropped
pinchAppliesUnchecked(scale) == pinchBranch # NONE

\* lines 390, 407, 423: does the branch apply the scale?
pinchApplies(scale) ==
    CASE pinchBranch = PINCH_ZOOM -> canZoomMoreY(scale) \/ canZoomMoreX(scale)
      [] pinchBranch = X_ZOOM -> canZoomMoreX(scale)
      [] pinchBranch = Y_ZOOM -> canZoomMoreY(scale)
      [] OTHER -> FALSE

pinchPivot == getTrans(mTouchPointCenter.x, mTouchPointCenter.y)

\* the live matrix after the branch, before the refresh
pinchMatrix(scale) ==
    IF pinchApplies(scale)
    THEN PostScale(mSavedMatrix, pinchScaleX(scale), pinchScaleY(scale),
                   pinchPivot.x, pinchPivot.y)
    ELSE mMatrix

pinchExact(scale) ==
    pinchApplies(scale) =>
        ExactScale(mSavedMatrix, pinchScaleX(scale), pinchScaleY(scale),
                   pinchPivot.x, pinchPivot.y)

onPinchGestureTouch(e) ==
    /\ e.state = ACTIVE <=> pinchActive
    /\ handler' = "onPinchGestureTouch"
    /\ UNCHANGED wiringVars
    /\ queries' = 0
    /\ UNCHANGED <<chart, panActive, pinchActive, pinchStartMatrix, scrollEnabled>>
    /\ UNCHANGED <<mTouchMode, mLastHighlighted, mSavedMatrix, mTouchPointCenter,
                   mDecelerationVelocity>>
    /\ IF ~pinchHandlersOn \/ e.state # ACTIVE
       THEN /\ calls' = {}
            /\ UNCHANGED <<mLastGesture, mMatrix>>
       ELSE IF mTouchMode \in ZoomModes
            THEN /\ pinchExact(e.scale)
                 /\ Representable(pinchMatrix(e.scale))
                 /\ mLastGesture' = IF pinchBranch = NONE THEN mLastGesture
                                                          ELSE pinchBranch
                 /\ mMatrix' = refresh(pinchMatrix(e.scale))
                 /\ calls' = NotifyIf("pinch", <<>>) \cup {Call("invalidate")}
                       \cup IF pinchBranch = NONE THEN {}
                            ELSE NotifyIf("zoom", <<pinchScaleX(e.scale),
                                                    pinchScaleY(e.scale),
                                                    pinchPivot.x, pinchPivot.y>>)
            ELSE /\ calls' = NotifyIf("pinch", <<>>)
                 /\ UNCHANGED <<mLastGesture, mMatrix>>

(***************************************************************************)
(* The tap and the double-tap recognizer's handlers.                       *)
(***************************************************************************)
\* charts for the tap handlers: per-tap highlighting, the 'tap' and the
\* 'doubleTap' listener, double-tap-to-zoom and the data vary freely; with
\* double-tap-to-zoom on and data present, the scale flags and the inversion
\* vary freely.  Pinch-zoom, dragging and highlight-per-drag are off: init
\* attaches neither the pinch nor the pan recognizer.
TapBase ==
    [BaseChart EXCEPT !.pinchZoom = FALSE, !.dragX = FALSE, !.dragY = FALSE,
                      !.highlightPerDrag = FALSE]

TapListeners(tap, doubleTap) ==
    (EventNames \ {"tap", "doubleTap"})
        \cup (IF tap THEN {"tap"} ELSE {})
        \cup (IF doubleTap THEN {"doubleTap"} ELSE {})

\* chart.getData(): no data, one series without entries, two series with one
\* entry between them (a series is given by its entry count)
ChartDatas == {Null, [sets |-> <<0>>], [sets |-> <<0, 1>>]}

TapCharts ==
    {[TapBase EXCEPT !.highlightPerTap = f[1], !.doubleTapToZoom = f[2],
                     !.listeners = TapListeners(f[3], f[4]), !.data = d] :
        f \in BOOLEAN \X BOOLEAN \X BOOLEAN \X BOOLEAN, d \in ChartDatas}
    \cup
    {[TapBase EXCEPT !.doubleTapToZoom = TRUE, !.scaleX = f[1], !.scaleY = f[2],
                     !.anyAxisInverted = f[3]] :
        f \in BOOLEAN \X BOOLEAN \X BOOLEAN}

isHighlightPerTapEnabled == chart.highlightPerTap
isDoubleTapToZoomEnabled == chart.doubleTapToZoom

\* ChartData.getEntryCount: the sum of the series' entry counts
RECURSIVE getEntryCount(_)
getEntryCount(sets) ==
    IF sets = <<>> THEN 0 ELSE Head(sets) + getEntryCount(Tail(sets))

TapPoints == {<<1, 2>>, <<2, 1>>}
TapEvents ==
    [state : {END, ACTIVE}, prevState : {ACTIVE, BEGAN}, point : TapPoints,
     highlight : HighlightResults]

\* state === END && prevState === ACTIVE (lines 559, 581)
isTapEnd(e) == e.state = END /\ e.prevState = ACTIVE

\* ChartTouchListener.performHighlight, as the spec gives it: the active
\* highlight is updated only when the resolved one differs from the last one
performHighlightChanges(h) == h # Null /\ h # mLastHighlighted

performHighlightCalls(h) ==
    {[name |-> "performHighlight", args |-> <<h>>]}
        \cup IF performHighlightChanges(h)
             THEN {[name |-> "highlight", args |-> <<h>>]}
             ELSE {}

\* lines 586-588: does the tap resolve the touch point?
tapResolves == hasListeners("tap") \/ isHighlightPerTapEnabled

\* mutant: the highlight update runs whenever the tap is resolved
tapHighlightsAlways == TRUE

\* line 593
tapHighlights == isHighlightPerTapEnabled

onTapGesture(e) ==
    /\ handler' = "onTapGesture"
    /\ UNCHANGED wiringVars
    /\ UNCHANGED <<chart, scrollEnabled, panActive, pinchActive, pinchStartMatrix>>
    /\ UNCHANGED <<mTouchMode, mMatrix, mSavedMatrix, mTouchPointCenter,
                   mDecelerationVelocity>>
    /\ IF ~isTapEnd(e)
       THEN /\ calls' = {}
            /\ queries' = 0
            /\ UNCHANGED <<mLastGesture, mLastHighlighted>>
       ELSE /\ mLastGesture' = SINGLE_TAP
            /\ IF ~tapResolves
               THEN /\ calls' = {}
                    /\ queries' = 0
                    /\ UNCHANGED mLastHighlighted
               ELSE /\ queries' = 1
                    /\ calls' = {Call("getHighlightByTouchPoint")}
                          \cup NotifyIf("tap", <<e.highlight>>)
                          \cup IF tapHighlights
                               THEN performHighlightCalls(e.highlight)
                               ELSE {}
                    /\ mLastHighlighted' =
                           IF tapHighlights /\ performHighlightChanges(e.highlight)
                           THEN e.highlight ELSE mLastHighlighted

\* the factor of a double-tap zoom, 1.4
DoubleTapFactor == <<7, 5>>

\* mutant: the notification does not depend on a registered listener
doubleTapNotifiesAlways == TRUE

\* line 562
doubleTapNotifies == hasListeners("doubleTap")

\* line 566, first operand
doubleTapMayZoom == isDoubleTapToZoomEnabled

\* mutant: the data is not looked at
doubleTapZoomsWithoutData == doubleTapMayZoom /\ chart.data # Null

\* line 566: chart.getData().getEntryCount() > 0 (on no data the call raises)
doubleTapZooms ==
    doubleTapMayZoom /\ chart.data # Null /\ getEntryCount(chart.data.sets) > 0

doubleTapRaises == doubleTapMayZoom /\ chart.data = Null

\* line 569: the arguments of chart.zoom
doubleTapZoomArgs(e) ==
    <<IF isScaleXEnabled THEN DoubleTapFactor ELSE One,
      IF isScaleYEnabled THEN DoubleTapFactor ELSE One,
      getTrans(e.point[1], e.point[2]).x, getTrans(e.point[1], e.point[2]).y>>

\* BarLineChartBase.zoom, as the spec gives it: the chart zooms in on each
\* axis whose factor is not 1, within the zoom limits.  The factor 1.4 is no
\* number of the model, so the zoomed scale is any scale above the old one
\* (or the limit), and the translation any translation of the model.
zoomedAxis(old, new, f, max) ==
    IF f = One THEN new = old ELSE new > old \/ (old = max /\ new = max)

chartZoom(fx, fy) ==
    IF fx = One /\ fy = One
    THEN {mMatrix}
    ELSE {m \in [sx : MinScaleX..MaxScaleX, sy : MinScaleY..MaxScaleY,
                 tx : -MaxTrans..MaxTrans, ty : -MaxTrans..MaxTrans] :
            /\ zoomedAxis(mMatrix.sx, m.sx, fx, MaxScaleX)
            /\ zoomedAxis(mMatrix.sy, m.sy, fy, MaxScaleY)}

onDoubleTapGesture(e) ==
    /\ handler' = "onDoubleTapGesture"
    /\ UNCHANGED wiringVars
    /\ UNCHANGED <<chart, scrollEnabled, panActive, pinchActive, pinchStartMatrix>>
    /\ UNCHANGED <<mTouchMode, mLastGesture, mLastHighlighted, mSavedMatrix,
                   mTouchPointCenter, mDecelerationVelocity>>
    /\ IF ~isTapEnd(e)
       THEN /\ calls' = {}
            /\ queries' = 0
            /\ UNCHANGED mMatrix
       ELSE /\ queries' = IF doubleTapNotifies THEN 1 ELSE 0
            /\ calls' =
                  (IF doubleTapNotifies
                   THEN {Call("getHighlightByTouchPoint"),
                         Notify("doubleTap", <<e.highlight>>)}
                   ELSE {})
                  \cup (IF doubleTapRaises
                        THEN {Call("throw:TypeError")}
                        ELSE {})
                  \cup (IF doubleTapZooms
                        THEN {[name |-> "zoom", args |-> doubleTapZoomArgs(e)]}
                        ELSE {})
            /\ IF doubleTapZooms
               THEN mMatrix' \in chartZoom(doubleTapZoomArgs(e)[1],
                                           doubleTapZoomArgs(e)[2])
               ELSE UNCHANGED mMatrix

(***************************************************************************)
(* The tap and the double-tap handler objects, and the recognizer manager   *)
(* they are registered with.  The manager is the gesture library's: a tap  *)
(* handler that waits for a handler stays undelivered while that handler's *)
(* recognition is pending, and is cancelled when that handler recognizes.  *)
(***************************************************************************)
\* { ...a, ...b }: the keys of b override those of a
spread(a, b) ==
    [gestureTag |-> IF b.gestureTag # {} THEN b.gestureTag ELSE a.gestureTag,
     numberOfTaps |-> IF b.numberOfTaps # {} THEN b.numberOfTaps ELSE a.numberOfTaps,
     waitFor |-> IF b.waitFor # {} THEN b.waitFor ELSE a.waitFor]

\* the tags of the listener whose handlers are modelled: the first constructed
thisTags == instances[1]

getTapGestureOptions ==
    spread([NoOptions EXCEPT !.gestureTag = {thisTags.tap}], chart.tapGestureOptions)

getDoubleTapGestureOptions ==
    spread([NoOptions EXCEPT !.gestureTag = {thisTags.doubleTap}],
           chart.doubleTapGestureOptions)

gestureTag(options) == CHOOSE t \in options.gestureTag : TRUE

\* manager.createGestureHandler(HandlerType.TAP, tag, options)
createGestureHandler(tag, options) ==
    [tag |-> tag,
     numberOfTaps |-> IF options.numberOfTaps = {} THEN 1
                      ELSE CHOOSE n \in options.numberOfTaps : TRUE,
     waitFor |-> UNION options.waitFor,
     attached |-> FALSE]

\* mutant: the tap handler waits for its own tag
tapWaitForOwnTag == {{gestureTag(getTapGestureOptions)}}

\* waitFor: [doubleTapOptions.gestureTag] (line 118)
tapWaitFor == {{gestureTag(getDoubleTapGestureOptions)}}

getOrCreateDoubleTapGestureHandler ==
    IF doubleTapGestureHandler # Null THEN doubleTapGestureHandler
    ELSE createGestureHandler(
             gestureTag(getDoubleTapGestureOptions),
             spread([NoOptions EXCEPT !.numberOfTaps = {2}], getDoubleTapGestureOptions))

getOrCreateTapGestureHandler ==
    IF tapGestureHandler # Null THEN tapGestureHandler
    ELSE createGestureHandler(
             gestureTag(getTapGestureOptions),
             spread([NoOptions EXCEPT !.waitFor = tapWaitFor], getTapGestureOptions))

isAttached(h) == h # Null /\ h.attached

\* the tap handler's recognition is held back by the double-tap handler's
tapWaits(tap, doubleTap) ==
    /\ isAttached(tap)
    /\ isAttached(doubleTap)
    /\ doubleTap.tag \in tap.waitFor

\* what a step that creates, attaches or detaches handlers leaves alone
wiringRuns(name) ==
    /\ handler' = name
    /\ calls' = {}
    /\ queries' = 0
    /\ UNCHANGED <<tagCounters, instances, highlighterVars, containerVars, rendererVars>>
    /\ UNCHANGED <<chart, scrollEnabled, panActive, pinchActive, pinchStartMatrix>>
    /\ UNCHANGED listenerVars

\* what a step that runs no gesture handler leaves alone
noHandlerRuns(name) ==
    /\ wiringRuns(name)
    /\ UNCHANGED disposeVars

\* the listener's reference to the handler of a kind
handlerOf(kind) ==
    CASE kind = "tap" -> tapGestureHandler
      [] kind = "doubleTap" -> doubleTapGestureHandler
      [] kind = "pinch" -> pinchGestureHandler
      [] kind = "pan" -> panGestureHandler

\* history: the count of the handlers created grows for every kind among
\* those asked for whose reference is empty (the test of lines 97, 110, 123
\* and 143)
countCreated(kinds) ==
    [k \in TagKinds |->
        createdHandlers[k] + IF k \in kinds /\ handlerOf(k) = Null THEN 1 ELSE 0]

\* lines 123-141, with the options of a chart that gives none for pinch
getOrCreatePinchGestureHandler ==
    IF pinchGestureHandler # Null THEN pinchGestureHandler
    ELSE createGestureHandler(thisTags.pinch, NoOptions)

\* lines 142-161, with the options of a chart that gives none for pan
getOrCreatePanGestureHandler ==
    IF panGestureHandler # Null THEN panGestureHandler
    ELSE createGestureHandler(thisTags.pan, NoOptions)

\* lines 199-210
setPinchTo(enabled) ==
    pinchGestureHandler' =
        IF enabled
        THEN [getOrCreatePinchGestureHandler EXCEPT !.attached = TRUE]
        ELSE IF pinchGestureHandler # Null
             THEN [pinchGestureHandler EXCEPT !.attached = FALSE]
             ELSE pinchGestureHandler

\* lines 211-221
setPanTo(enabled) ==
    panGestureHandler' =
        IF enabled
        THEN [getOrCreatePanGestureHandler EXCEPT !.attached = TRUE]
        ELSE IF panGestureHandler # Null
             THEN [panGestureHandler EXCEPT !.attached = FALSE]
             ELSE panGestureHandler

\* attachToView / detachFromView of the double-tap handler; a detached
\* handler's recognition is no longer pending
setDoubleTapTo(enabled) ==
    /\ doubleTapGestureHandler' =
           IF enabled
           THEN [getOrCreateDoubleTapGestureHandler EXCEPT !.attached = TRUE]
           ELSE IF doubleTapGestureHandler # Null
                THEN [doubleTapGestureHandler EXCEPT !.attached = FALSE]
                ELSE doubleTapGestureHandler
    /\ doubleTapPending' = (enabled /\ doubleTapPending)

setTapTo(enabled) ==
    /\ tapGestureHandler' =
           IF enabled
           THEN [getOrCreateTapGestureHandler EXCEPT !.attached = TRUE]
           ELSE IF tapGestureHandler # Null
                THEN [tapGestureHandler EXCEPT !.attached = FALSE]
                ELSE tapGestureHandler
    /\ tapPending' = (enabled /\ tapPending)

setDoubleTap(enabled) ==
    /\ setDoubleTapTo(enabled)
    /\ createdHandlers' = countCreated(IF enabled THEN {"doubleTap"} ELSE {})
    /\ UNCHANGED <<tapGestureHandler, tapPending>>
    /\ UNCHANGED <<panGestureHandler, pinchGestureHandler, leftAttached>>
    /\ wiringRuns("setDoubleTap")

setTap(enabled) ==
    /\ setTapTo(enabled)
    /\ createdHandlers' = countCreated(IF enabled THEN {"tap"} ELSE {})
    /\ UNCHANGED <<doubleTapGestureHandler, doubleTapPending>>
    /\ UNCHANGED <<panGestureHandler, pinchGestureHandler, leftAttached>>
    /\ wiringRuns("setTap")

setPinch(enabled) ==
    /\ setPinchTo(enabled)
    /\ createdHandlers' = countCreated(IF enabled THEN {"pinch"} ELSE {})
    /\ UNCHANGED <<panGestureHandler, leftAttached>>
    /\ UNCHANGED managerVars
    /\ wiringRuns("setPinch")

setPan(enabled) ==
    /\ setPanTo(enabled)
    /\ createdHandlers' = countCreated(IF enabled THEN {"pan"} ELSE {})
    /\ UNCHANGED <<pinchGestureHandler, leftAttached>>
    /\ UNCHANGED managerVars
    /\ wiringRuns("setPan")

\* mutant: the handler is left on the view
detachFromViewSkipped(h) == h

\* lines 225-228: h && h.detachFromView(chart)
detachFromView(h) == IF h = Null THEN h ELSE [h EXCEPT !.attached = FALSE]

\* lines 222-233: the handlers there are are detached and the four references
\* are cleared; a handler that is still on the view then is on it for good
dispose ==
    /\ leftAttached' = leftAttached \cup
           {h \in {detachFromView(handlerOf(k)) : k \in TagKinds} : isAttached(h)}
    /\ panGestureHandler' = Null
    /\ pinchGestureHandler' = Null
    /\ tapGestureHandler' = Null
    /\ doubleTapGestureHandler' = Null
    /\ doubleTapPending' = FALSE
    /\ tapPending' = FALSE
    /\ createdHandlers' = [k \in TagKinds |-> 0]
    /\ handler' = "dispose"
    /\ calls' = {[name |-> "detachFromView", args |-> <<k>>] :
                    k \in {j \in TagKinds : handlerOf(j) # Null}}
    /\ queries' = 0
    /\ UNCHANGED <<tagCounters, instances, highlighterVars, containerVars, rendererVars>>
    /\ UNCHANGED <<chart, scrollEnabled, panActive, pinchActive, pinchStartMatrix>>
    /\ UNCHANGED listenerVars

\* no handler has been created
handlersUncreated ==
    /\ panGestureHandler = Null
    /\ pinchGestureHandler = Null
    /\ leftAttached = {}
    /\ createdHandlers = [k \in TagKinds |-> 0]

\* lines 234-250
init ==
    /\ IF isDoubleTapToZoomEnabled
       THEN setDoubleTapTo(TRUE)
       ELSE UNCHANGED <<doubleTapGestureHandler, doubleTapPending>>
    /\ IF isHighlightPerTapEnabled
       THEN setTapTo(TRUE)
       ELSE UNCHANGED <<tapGestureHandler, tapPending>>
    /\ IF isHighlightPerDragEnabled \/ isDragEnabled
       THEN setPanTo(TRUE)
       ELSE UNCHANGED panGestureHandler
    /\ IF isPinchZoomEnabled
       THEN setPinchTo(TRUE)
       ELSE UNCHANGED pinchGestureHandler
    /\ createdHandlers' = countCreated(
           (IF isDoubleTapToZoomEnabled THEN {"doubleTap"} ELSE {})
           \cup (IF isHighlightPerTapEnabled THEN {"tap"} ELSE {})
           \cup (IF isHighlightPerDragEnabled \/ isDragEnabled THEN {"pan"} ELSE {})
           \cup (IF isPinchZoomEnabled THEN {"pinch"} ELSE {}))
    /\ UNCHANGED leftAttached
    /\ wiringRuns("init")

\* the events the recognizers deliver on recognition
TapEndEvents == {e \in TapEvents : isTapEnd(e)}

\* a finger taps the chart and no double tap is completed by it: the
\* double-tap handler, if attached, starts waiting for a second tap, and the
\* tap handler, if attached, has a tap to deliver
touchTap ==
    /\ ~doubleTapPending
    /\ ~tapPending
    /\ isAttached(tapGestureHandler) \/ isAttached(doubleTapGestureHandler)
    /\ doubleTapPending' = isAttached(doubleTapGestureHandler)
    /\ tapPending' = isAttached(tapGestureHandler)
    /\ UNCHANGED <<tapGestureHandler, doubleTapGestureHandler>>
    /\ noHandlerRuns("touchTap")

\* the tap handler delivers its tap, unless it waits for the double-tap
\* handler and that handler's recognition is pending
tapRecognized(e) ==
    /\ tapPending
    /\ ~(tapWaits(tapGestureHandler, doubleTapGestureHandler) /\ doubleTapPending)
    /\ tapPending' = FALSE
    /\ UNCHANGED <<tapGestureHandler, doubleTapGestureHandler, doubleTapPending>>
    /\ onTapGesture(e)

\* the second tap arrives within the double-tap window: the double-tap
\* handler delivers, a tap handler that waits for it is cancelled, one that
\* does not wait (and has delivered the first tap) has a second tap to deliver
doubleTapRecognized(e) ==
    /\ doubleTapPending
    /\ tapPending => tapWaits(tapGestureHandler, doubleTapGestureHandler)
    /\ doubleTapPending' = FALSE
    /\ tapPending' = (isAttached(tapGestureHandler)
                        /\ ~tapWaits(tapGestureHandler, doubleTapGestureHandler))
    /\ UNCHANGED <<tapGestureHandler, doubleTapGestureHandler>>
    /\ onDoubleTapGesture(e)

\* the double-tap window elapses without a second tap
doubleTapFails ==
    /\ doubleTapPending
    /\ doubleTapPending' = FALSE
    /\ UNCHANGED <<tapGestureHandler, doubleTapGestureHandler, tapPending>>
    /\ noHandlerRuns("doubleTapFails")

\* what the chart's options can hold: nothing, an own tag, an own waitFor
TapOptions ==
    {NoOptions, [NoOptions EXCEPT !.gestureTag = {7}], [NoOptions EXCEPT !.waitFor = {{}}]}
DoubleTapOptions == {NoOptions, [NoOptions EXCEPT !.gestureTag = {8}]}

WaitCharts ==
    {[TapBase EXCEPT !.highlightPerTap = f[1], !.doubleTapToZoom = f[2],
                     !.data = [sets |-> <<0>>],
                     !.tapGestureOptions = t, !.doubleTapGestureOptions = d] :
        f \in BOOLEAN \X BOOLEAN, t \in TapOptions, d \in DoubleTapOptions}

(***************************************************************************)
(* The specification.                                                      *)
(***************************************************************************)
Init ==
    /\ chart \in ChartConfigs
    /\ scrollEnabled = TRUE
    /\ mTouchMode = NONE
    /\ mLastGesture = NONE
    /\ mLastHighlighted = Null
    /\ mMatrix = Identity
    /\ mSavedMatrix = Identity
    /\ mTouchPointCenter = [x |-> 0, y |-> 0]
    /\ mDecelerationVelocity = [x |-> 0, y |-> 0]
    /\ panActive = FALSE
    /\ pinchActive = FALSE
    /\ pinchStartMatrix = Null
    /\ handler = "init"
    /\ calls = {}
    /\ queries = 0
    /\ tagCounters = nextTags(InitialTags)
    /\ instances = <<InitialTags>>
    /\ tapGestureHandler = Null
    /\ doubleTapGestureHandler = Null
    /\ doubleTapPending = FALSE
    /\ tapPending = FALSE
    /\ handlersUncreated
    /\ rendererUnused
    /\ highlighterUnused
    /\ containerUnused

Next ==
    \/ \E e \in PanStateEvents : onPanGestureState(e) /\ UNCHANGED managerVars
    \/ \E e \in PanTouchEvents : onPanGestureTouch(e) /\ UNCHANGED managerVars
    \/ \E e \in PinchStateEvents : onPinchGestureState(e) /\ UNCHANGED managerVars
    \/ \E e \in PinchTouchEvents : onPinchGestureTouch(e) /\ UNCHANGED managerVars

Spec == Init /\ [][Next]_vars

TypeOK ==
    /\ chart \in ChartConfigs
    /\ mTouchMode \in TouchModes
    /\ Representable(mMatrix)
    /\ mMatrix.sx \in MinScaleX..MaxScaleX
    /\ mMatrix.sy \in MinScaleY..MaxScaleY

(***************************************************************************)
(* The listener of a chart with only the tap and the double-tap            *)
(* recognizer attached.                                                    *)
(***************************************************************************)
InitTap ==
    /\ chart \in TapCharts
    /\ scrollEnabled = TRUE
    /\ mTouchMode = NONE
    /\ mLastGesture = NONE
    /\ mLastHighlighted = Null
    /\ mMatrix = Identity
    /\ mSavedMatrix = Identity
    /\ mTouchPointCenter = [x |-> 0, y |-> 0]
    /\ mDecelerationVelocity = [x |-> 0, y |-> 0]
    /\ panActive = FALSE
    /\ pinchActive = FALSE
    /\ pinchStartMatrix = Null
    /\ handler = "init"
    /\ calls = {}
    /\ queries = 0
    /\ tagCounters = nextTags(InitialTags)
    /\ instances = <<InitialTags>>
    /\ tapGestureHandler = Null
    /\ doubleTapGestureHandler = Null
    /\ doubleTapPending = FALSE
    /\ tapPending = FALSE
    /\ handlersUncreated
    /\ rendererUnused
    /\ highlighterUnused
    /\ containerUnused

NextTap ==
    \/ \E e \in TapEvents : onTapGesture(e) /\ UNCHANGED managerVars
    \/ \E e \in TapEvents : onDoubleTapGesture(e) /\ UNCHANGED managerVars

SpecTap == InitTap /\ [][NextTap]_vars

(***************************************************************************)
(* One process that constructs listeners, one per chart.                   *)
(***************************************************************************)
InitTags == Init /\ chart = BaseChart

NextTags == constructor

SpecTags == InitTags /\ [][NextTags]_vars

(***************************************************************************)
(* The listener of one chart with its tap and double-tap handlers and the  *)
(* recognizer manager.                                                     *)
(***************************************************************************)
InitWait ==
    /\ chart \in WaitCharts
    /\ scrollEnabled = TRUE
    /\ mTouchMode = NONE
    /\ mLastGesture = NONE
    /\ mLastHighlighted = Null
    /\ mMatrix = Identity
    /\ mSavedMatrix = Identity
    /\ mTouchPointCenter = [x |-> 0, y |-> 0]
    /\ mDecelerationVelocity = [x |-> 0, y |-> 0]
    /\ panActive = FALSE
    /\ pinchActive = FALSE
    /\ pinchStartMatrix = Null
    /\ handler = "constructor"
    /\ calls = {}
    /\ queries = 0
    /\ tagCounters = nextTags(InitialTags)
    /\ instances = <<InitialTags>>
    /\ tapGestureHandler = Null
    /\ doubleTapGestureHandler = Null
    /\ doubleTapPending = FALSE
    /\ tapPending = FALSE
    /\ handlersUncreated
    /\ rendererUnused
    /\ highlighterUnused
    /\ containerUnused

NextWait ==
    \/ init
    \/ \E enabled \in BOOLEAN : setTap(enabled)
    \/ \E enabled \in BOOLEAN : setDoubleTap(enabled)
    \/ touchTap
    \/ \E e \in TapEndEvents : tapRecognized(e)
    \/ \E e \in TapEndEvents : doubleTapRecognized(e)
    \/ doubleTapFails

SpecWait == InitWait /\ [][NextWait]_vars

(***************************************************************************)
(* The highlighter of one chart, queried at touch points.                  *)
(***************************************************************************)
InitHighlight ==
    /\ chart = BaseChart
    /\ scrollEnabled = TRUE
    /\ mTouchMode = NONE
    /\ mLastGesture = NONE
    /\ mLastHighlighted = Null
    /\ mMatrix = Identity
    /\ mSavedMatrix = Identity
    /\ mTouchPointCenter = [x |-> 0, y |-> 0]
    /\ mDecelerationVelocity = [x |-> 0, y |-> 0]
    /\ panActive = FALSE
    /\ pinchActive = FALSE
    /\ pinchStartMatrix = Null
    /\ handler = "constructor"
    /\ calls = {}
    /\ queries = 0
    /\ tagCounters = nextTags(InitialTags)
    /\ instances = <<InitialTags>>
    /\ tapGestureHandler = Null
    /\ doubleTapGestureHandler = Null
    /\ doubleTapPending = FALSE
    /\ tapPending = FALSE
    /\ handlersUncreated
    /\ rendererUnused
    /\ mData \in HighlightDatas
    /\ maxHighlightDistance \in MaxDistances
    /\ mHighlightBuffer = <<>>
    /\ highlightResult = NoQuery
    /\ containerUnused

NextHighlight == \E x \in TouchXs, y \in TouchYs : getHighlight(x, y)

SpecHighlight == InitHighlight /\ [][NextHighlight]_vars

(***************************************************************************)
(* One data container and the operations that change it.                   *)
(***************************************************************************)
InitData ==
    /\ chart = BaseChart
    /\ scrollEnabled = TRUE
    /\ mTouchMode = NONE
    /\ mLastGesture = NONE
    /\ mLastHighlighted = Null
    /\ mMatrix = Identity
    /\ mSavedMatrix = Identity
    /\ mTouchPointCenter = [x |-> 0, y |-> 0]
    /\ mDecelerationVelocity = [x |-> 0, y |-> 0]
    /\ panActive = FALSE
    /\ pinchActive = FALSE
    /\ pinchStartMatrix = Null
    /\ handler = "constructor"
    /\ calls = {}
    /\ queries = 0
    /\ tagCounters = nextTags(InitialTags)
    /\ instances = <<InitialTags>>
    /\ tapGestureHandler = Null
    /\ doubleTapGestureHandler = Null
    /\ doubleTapPending = FALSE
    /\ tapPending = FALSE
    /\ handlersUncreated
    /\ rendererUnused
    /\ highlighterUnused
    /\ mDataSets = <<>>
    /\ mBounds = calcMinMax(InitialBounds, <<>>)
    /\ dataReturn = "undefined"
    /\ lookupIndex = 0

NextData ==
    \/ \E d \in OtherSeries \cup {Null} : addDataSet(d)
    \/ \E d \in SeriesInside \cup OtherSeries \cup {Null} : removeDataSet(d)
    \/ \E index \in DataSetIndexes : removeDataSetAtIndex(index)
    \/ \E e \in DataEntries \cup {Null}, index \in DataSetIndexes : addEntry(e, index)
    \/ \E e \in DataEntries \cup {Null}, index \in DataSetIndexes : removeEntry(e, index)
    \/ \E e \in DataEntries, index \in DataSetIndexes : removeEntryForXValue(e.x, index)
    \/ clearValues
    \/ \E index \in DataSetIndexes : getDataSetByIndex(index)
    \/ \E highlight \in LookupHighlights : getEntryForHighlight(highlight)

SpecData == InitData /\ [][NextData]_vars

(***************************************************************************)
(* A pan gesture on a chart whose axis the application inverts or          *)
(* restores between two events: the axis belongs to the chart, and the     *)
(* listener reads it through isAnyAxisInverted (line 540).                 *)
(***************************************************************************)
\* YAxis.setInverted, called by the application: no handler of the listener
\* runs
setInverted(inverted_) ==
    /\ chart.anyAxisInverted # inverted_
    /\ chart' = [chart EXCEPT !.anyAxisInverted = inverted_]
    /\ UNCHANGED <<handler, calls, queries, scrollEnabled, panActive, pinchActive,
                   pinchStartMatrix>>
    /\ UNCHANGED listenerVars
    /\ UNCHANGED wiringVars
    /\ UNCHANGED managerVars

\* charts that pan without being zoomed in (a drag offset is set)
InvertCharts ==
    {[BaseChart EXCEPT !.dragOffset = TRUE, !.anyAxisInverted = f[1],
                       !.highlightPerDrag = f[2]] :
        f \in BOOLEAN \X BOOLEAN}

InitInvert ==
    /\ chart \in InvertCharts
    /\ scrollEnabled = TRUE
    /\ mTouchMode = NONE
    /\ mLastGesture = NONE
    /\ mLastHighlighted = Null
    /\ mMatrix = Identity
    /\ mSavedMatrix = Identity
    /\ mTouchPointCenter = [x |-> 0, y |-> 0]
    /\ mDecelerationVelocity = [x |-> 0, y |-> 0]
    /\ panActive = FALSE
    /\ pinchActive = FALSE
    /\ pinchStartMatrix = Null
    /\ handler = "init"
    /\ calls = {}
    /\ queries = 0
    /\ tagCounters = nextTags(InitialTags)
    /\ instances = <<InitialTags>>
    /\ tapGestureHandler = Null
    /\ doubleTapGestureHandler = Null
    /\ doubleTapPending = FALSE
    /\ tapPending = FALSE
    /\ handlersUncreated
    /\ rendererUnused
    /\ highlighterUnused
    /\ containerUnused

NextInvert ==
    \/ \E e \in PanStateEvents : onPanGestureState(e) /\ UNCHANGED managerVars
    \/ \E e \in PanTouchEvents : onPanGestureTouch(e) /\ UNCHANGED managerVars
    \/ \E inverted_ \in BOOLEAN : setInverted(inverted_)

SpecInvert == InitInvert /\ [][NextInvert]_vars

(***************************************************************************)
(* The listener of one chart, its four handlers, and its disposal.         *)
(***************************************************************************)
\* the flags init reads vary freely
DisposeCharts ==
    {[BaseChart EXCEPT !.doubleTapToZoom = f[1], !.highlightPerTap = f[2],
                       !.dragX = f[3], !.dragY = f[3], !.highlightPerDrag = f[3],
                       !.pinchZoom = f[4]] :
        f \in BOOLEAN \X BOOLEAN \X BOOLEAN \X BOOLEAN}

InitDispose ==
    /\ chart \in DisposeCharts
    /\ scrollEnabled = TRUE
    /\ mTouchMode = NONE
    /\ mLastGesture = NONE
    /\ mLastHighlighted = Null
    /\ mMatrix = Identity
    /\ mSavedMatrix = Identity
    /\ mTouchPointCenter = [x |-> 0, y |-> 0]
    /\ mDecelerationVelocity = [x |-> 0, y |-> 0]
    /\ panActive = FALSE
    /\ pinchActive = FALSE
    /\ pinchStartMatrix = Null
    /\ handler = "constructor"
    /\ calls = {}
    /\ queries = 0
    /\ tagCounters = nextTags(InitialTags)
    /\ instances = <<InitialTags>>
    /\ tapGestureHandler = Null
    /\ doubleTapGestureHandler = Null
    /\ doubleTapPending = FALSE
    /\ tapPending = FALSE
    /\ handlersUncreated
    /\ rendererUnused
    /\ highlighterUnused
    /\ containerUnused

NextDispose ==
    \/ init
    \/ \E enabled \in BOOLEAN : setPan(enabled)
    \/ \E enabled \in BOOLEAN : setPinch(enabled)
    \/ \E enabled \in BOOLEAN : setTap(enabled)
    \/ \E enabled \in BOOLEAN : setDoubleTap(enabled)
    \/ dispose

SpecDispose == InitDispose /\ [][NextDispose]_vars

(***************************************************************************)
(* The listener under the events of all four recognizers.                  *)
(***************************************************************************)
\* charts that highlight per tap, with and without pinch zoom
TouchCharts ==
    {[BaseChart EXCEPT !.pinchZoom = f, !.highlightPerTap = TRUE] : f \in BOOLEAN}

\* the tap events at one point, over no entry
TouchTapEvents ==
    {e \in TapEvents : e.point = <<1, 2>> /\ e.highlight = Null}

InitTouch ==
    /\ chart \in TouchCharts
    /\ scrollEnabled = TRUE
    /\ mTouchMode = NONE
    /\ mLastGesture = NONE
    /\ mLastHighlighted = Null
    /\ mMatrix = Identity
    /\ mSavedMatrix = Identity
    /\ mTouchPointCenter = [x |-> 0, y |-> 0]
    /\ mDecelerationVelocity = [x |-> 0, y |-> 0]
    /\ panActive = FALSE
    /\ pinchActive = FALSE
    /\ pinchStartMatrix = Null
    /\ handler = "init"
    /\ calls = {}
    /\ queries = 0
    /\ tagCounters = nextTags(InitialTags)
    /\ instances = <<InitialTags>>
    /\ tapGestureHandler = Null
    /\ doubleTapGestureHandler = Null
    /\ doubleTapPending = FALSE
    /\ tapPending = FALSE
    /\ handlersUncreated
    /\ rendererUnused
    /\ highlighterUnused
    /\ containerUnused

NextTouch ==
    \/ \E e \in PanStateEvents : onPanGestureState(e) /\ UNCHANGED managerVars
    \/ \E e \in PanTouchEvents : onPanGestureTouch(e) /\ UNCHANGED managerVars
    \/ \E e \in PinchStateEvents : onPinchGestureState(e) /\ UNCHANGED managerVars
    \/ \E e \in PinchTouchEvents : onPinchGestureTouch(e) /\ UNCHANGED managerVars
    \/ \E e \in TouchTapEvents : onTapGesture(e) /\ UNCHANGED managerVars
    \/ \E e \in TouchTapEvents : onDoubleTapGesture(e) /\ UNCHANGED managerVars

SpecTouch == InitTouch /\ [][NextTouch]_vars

(***************************************************************************)
(* Pan and pinch on charts that pan without being zoomed in, with and      *)
(* without scaling.                                                        *)
(***************************************************************************)
YieldCharts ==
    {[BaseChart EXCEPT !.dragOffset = TRUE, !.scaleX = f[1], !.scaleY = f[1],
                       !.pinchZoom = f[2]] :
        f \in BOOLEAN \X BOOLEAN}

InitYield ==
    /\ chart \in YieldCharts
    /\ scrollEnabled = TRUE
    /\ mTouchMode = NONE
    /\ mLastGesture = NONE
    /\ mLastHighlighted = Null
    /\ mMatrix = Identity
    /\ mSavedMatrix = Identity
    /\ mTouchPointCenter = [x |-> 0, y |-> 0]
    /\ mDecelerationVelocity = [x |-> 0, y |-> 0]
    /\ panActive = FALSE
    /\ pinchActive = FALSE
    /\ pinchStartMatrix = Null
    /\ handler = "init"
    /\ calls = {}
    /\ queries = 0
    /\ tagCounters = nextTags(InitialTags)
    /\ instances = <<InitialTags>>
    /\ tapGestureHandler = Null
    /\ doubleTapGestureHandler = Null
    /\ doubleTapPending = FALSE
    /\ tapPending = FALSE
    /\ handlersUncreated
    /\ rendererUnused
    /\ highlighterUnused
    /\ containerUnused

SpecYield == InitYield /\ [][Next]_vars

(***************************************************************************)
(* The claims.  A claim about what a handler does to the state is an       *)
(* action property: for every event e, a step that is the handler's step   *)
(* for e has the effect the claim states.                                  *)
(***************************************************************************)
InvalidateCalled == Call("invalidate") \in calls
ZoomNotified(f) == \E c \in calls : c.name = "notify:zoom" /\ f \in {c.args[1], c.args[2]}

\* the dragged distance, Y negated when the touch situation is inverted
C1_Dragged(e) ==
    PostTranslate(mSavedMatrix, e.translation[1],
                  IF chart.anyAxisInverted THEN -e.translation[2]
                                           ELSE e.translation[2])

\* C1: in DRAG mode every pan move leaves the live matrix equal to the saved
\* matrix post-translated once by that event's translation (Y negated when
\* inverted), whatever the earlier moves of the gesture were; the saved
\* matrix is left alone.
C1_DragIsRelativeToSaved ==
    [][\A e \in PanTouchEvents :
          (mTouchMode = DRAG /\ e.state = ACTIVE /\ onPanGestureTouch(e))
              => /\ mMatrix' = C1_Dragged(e)
                 /\ mSavedMatrix' = mSavedMatrix]_vars

\* C1 witness: a drag move has run and moved the live matrix off the saved one
C1_Witness ==
    /\ handler = "onPanGestureTouch"
    /\ mTouchMode = DRAG
    /\ InvalidateCalled
    /\ mMatrix # mSavedMatrix
    /\ mMatrix.sx = mSavedMatrix.sx /\ mMatrix.sy = mSavedMatrix.sy

\* C2: every pinch move that applies a scale leaves the live matrix equal to
\* the matrix as it was when that pinch began, post-scaled once by the event's
\* scale about the pivot (and limited by the view port), under every
\* interleaving of pan events between the pinch events.
C2_PinchIsRelativeToPinchStart ==
    [][\A e \in PinchTouchEvents :
          (/\ pinchStartMatrix # Null
           /\ mTouchMode \in ZoomModes
           /\ e.state = ACTIVE
           /\ pinchApplies(e.scale)
           /\ onPinchGestureTouch(e))
              => mMatrix' = refresh(PostScale(pinchStartMatrix, pinchScaleX(e.scale),
                                              pinchScaleY(e.scale),
                                              pinchPivot.x, pinchPivot.y))]_vars

\* C3: once canZoomInMore is false for an axis, a zoom-in pinch move
\* (scale >= 1) in X_ZOOM, Y_ZOOM or PINCH_ZOOM never changes the scale of
\* that axis, also in PINCH_ZOOM when the other axis can still zoom in.
C3_ZoomInClampPerAxis ==
    [][\A e \in PinchTouchEvents :
          (/\ mTouchMode \in ZoomModes
           /\ e.state = ACTIVE
           /\ e.scale[1] >= e.scale[2]
           /\ onPinchGestureTouch(e))
              => /\ mMatrix.sx >= MaxScaleX => mMatrix'.sx = mMatrix.sx
                 /\ mMatrix.sy >= MaxScaleY => mMatrix'.sy = mMatrix.sy]_vars

\* the requested direction of a scale cannot zoom further on either axis
C4_NoAxisCanZoom(scale) ==
    IF scale[1] < scale[2]
    THEN mMatrix.sx <= MinScaleX /\ mMatrix.sy <= MinScaleY
    ELSE mMatrix.sx >= MaxScaleX /\ mMatrix.sy >= MaxScaleY

\* C4: a pinch move whose requested direction cannot zoom further on either
\* axis leaves the live matrix unchanged and the touch mode at the zoom mode
\* set at pinch begin.
C4_BlockedScaleNotApplied ==
    [][\A e \in PinchTouchEvents :
          (/\ mTouchMode \in ZoomModes
           /\ e.state = ACTIVE
           /\ C4_NoAxisCanZoom(e.scale)
           /\ onPinchGestureTouch(e))
              => /\ mMatrix' = mMatrix
                 /\ mTouchMode' = mTouchMode]_vars

\* C4 witness: in PINCH_ZOOM, fully zoomed out, a move with scale 1/2 was
\* handled (and reported) and the live matrix is still the one of pinch begin
C4_Witness ==
    /\ handler = "onPinchGestureTouch"
    /\ mTouchMode = PINCH_ZOOM
    /\ ZoomNotified(<<1, 2>>)
    /\ mMatrix.sx = MinScaleX /\ mMatrix.sy = MinScaleY
    /\ mMatrix = mSavedMatrix
    /\ mMatrix = pinchStartMatrix

\* C5: a pinch move with a malformed scale (scale <= 0) leaves the live
\* matrix unchanged, in every zoom mode and zoom-bounds state.
C5_MalformedScaleIgnored ==
    [][\A e \in PinchTouchEvents :
          (e.scale[1] <= 0 /\ onPinchGestureTouch(e)) => mMatrix' = mMatrix]_vars

\* the mode the claim gives for a pinch that begins with these finger positions
C6_ExpectedModes(e) ==
    IF ~(chart.scaleX \/ chart.scaleY) THEN {mTouchMode}
    ELSE IF chart.pinchZoom THEN {PINCH_ZOOM}
    ELSE IF chart.scaleX /\ ~chart.scaleY THEN {X_ZOOM}
    ELSE IF chart.scaleY /\ ~chart.scaleX THEN {Y_ZOOM}
    ELSE IF Abs(e.positions[1] - e.positions[3]) > Abs(e.positions[2] - e.positions[4])
         THEN {X_ZOOM}
    ELSE IF Abs(e.positions[2] - e.positions[4]) > Abs(e.positions[1] - e.positions[3])
         THEN {Y_ZOOM}
    ELSE {X_ZOOM, Y_ZOOM}

\* C6: on pinch begin with X or Y scaling enabled the mode becomes PINCH_ZOOM
\* if pinch-zoom is enabled; otherwise the zoom mode of the one enabled axis;
\* otherwise X_ZOOM or Y_ZOOM by the larger inter-finger distance.  With
\* neither axis scalable the mode is not changed.
C6_PinchBeginMode ==
    [][\A e \in PinchStateEvents :
          (e.state = ACTIVE /\ onPinchGestureState(e))
              => mTouchMode' \in C6_ExpectedModes(e)]_vars

\* C6 witness: both axes scalable, no pinch-zoom, and the pinch began in X_ZOOM
C6_Witness ==
    /\ handler = "onPinchGestureState"
    /\ pinchActive
    /\ chart.scaleX /\ chart.scaleY /\ ~chart.pinchZoom
    /\ mTouchMode = X_ZOOM
    /\ calls = {Call("disableScroll")}

\* C7: on pinch END or CANCELLED in X_ZOOM, Y_ZOOM, PINCH_ZOOM or POST_ZOOM
\* the mode is reset to NONE, the offsets are recalculated and a redraw is
\* requested; in NONE or DRAG none of the three happens.
C7_PinchEndResetsZoomModes ==
    [][\A e \in PinchStateEvents :
          (e.state \in {END, CANCELLED} /\ onPinchGestureState(e))
              => IF mTouchMode \in {X_ZOOM, Y_ZOOM, PINCH_ZOOM, POST_ZOOM}
                 THEN /\ mTouchMode' = NONE
                      /\ Call("calculateOffsets") \in calls'
                      /\ Call("invalidate") \in calls'
                 ELSE /\ mTouchMode' = mTouchMode
                      /\ Call("calculateOffsets") \notin calls'
                      /\ Call("invalidate") \notin calls']_vars

\* C7 witness: a pinch END/CANCELLED has reset a zoom mode
C7_Witness ==
    /\ handler = "onPinchGestureState"
    /\ ~pinchActive
    /\ mTouchMode = NONE
    /\ Call("calculateOffsets") \in calls
    /\ InvalidateCalled

\* C8 as claimed: every pinch END or CANCELLED re-enables scrolling, whatever
\* the touch mode and whatever the chart's scale flags.
C8_PinchEndAlwaysEnablesScroll ==
    [][\A e \in PinchStateEvents :
          (e.state \in {END, CANCELLED} /\ onPinchGestureState(e))
              => scrollEnabled']_vars

\* C8 amended: every pinch END or CANCELLED that arrives while X or Y scaling
\* is enabled re-enables scrolling, whatever the touch mode.
C8_PinchEndEnablesScrollWhenScalable ==
    [][\A e \in PinchStateEvents :
          (/\ e.state \in {END, CANCELLED}
           /\ chart.scaleX \/ chart.scaleY
           /\ onPinchGestureState(e))
              => scrollEnabled']_vars

\* C8 witness: a pinch END/CANCELLED arrived in DRAG mode and enabled scrolling
C8_Witness ==
    /\ handler = "onPinchGestureState"
    /\ mTouchMode = DRAG
    /\ calls = {Call("enableScroll")}
    /\ scrollEnabled

\* the condition the claim gives for entering DRAG
C9_MayDrag(e) ==
    /\ chart.dragX /\ chart.dragY
    /\ ~(mMatrix.sx <= MinScaleX /\ mMatrix.sy <= MinScaleY) \/ chart.dragOffset
    /\ ~chart.zoomedPanWith2Pointers \/ e.numberOfPointers = 2

C9_PanConditionFails(e) ==
    \/ (mMatrix.sx <= MinScaleX /\ mMatrix.sy <= MinScaleY) /\ ~chart.dragOffset
    \/ chart.zoomedPanWith2Pointers /\ e.numberOfPointers # 2

\* C9: a pan event in mode NONE switches to DRAG only if dragging is enabled
\* on both axes, the chart is not fully zoomed out or has a drag offset, and
\* the two-pointer rule holds; when the pan condition fails and
\* highlight-per-drag is enabled the event is fed to the highlighter and mode
\* and matrix stay unchanged.
C9_PanFromNone ==
    [][\A e \in PanTouchEvents :
          (mTouchMode = NONE /\ onPanGestureTouch(e))
              => /\ mTouchMode' = DRAG => C9_MayDrag(e)
                 /\ mTouchMode' \in {NONE, DRAG}
                 /\ (e.state = ACTIVE /\ C9_PanConditionFails(e)
                       /\ chart.highlightPerDrag)
                       => /\ Call("getHighlightByTouchPoint") \in calls'
                          /\ mTouchMode' = NONE
                          /\ mMatrix' = mMatrix]_vars

\* C9 witness: a two-pointer pan entered DRAG on a chart that pans with two
\* pointers only
C9_Witness ==
    /\ handler = "onPanGestureTouch"
    /\ mTouchMode = DRAG
    /\ chart.zoomedPanWith2Pointers
    /\ calls = {Call("disableScroll")}

\* C10: on pan END or CANCELLED in DRAG the mode is reset to NONE, the
\* deceleration velocity is the event's release velocity and a redraw is
\* requested; pan begin (ACTIVE) resets the deceleration velocity to (0, 0).
C10_PanEndKeepsReleaseVelocity ==
    [][\A e \in PanStateEvents :
          onPanGestureState(e)
              => /\ (e.state \in {END, CANCELLED} /\ mTouchMode = DRAG)
                       => /\ mTouchMode' = NONE
                          /\ mDecelerationVelocity' =
                                 [x |-> e.velocity[1], y |-> e.velocity[2]]
                          /\ Call("invalidate") \in calls'
                 /\ e.state = ACTIVE
                       => mDecelerationVelocity' = [x |-> 0, y |-> 0]]_vars

\* C10 witness: a drag has ended and left its release velocity
C10_Witness ==
    /\ handler = "onPanGestureState"
    /\ ~panActive
    /\ mTouchMode = NONE
    /\ mDecelerationVelocity = [x |-> 1, y |-> 2]
    /\ InvalidateCalled

\* the fields a terminal event without a begin must leave alone
C11_Untouched ==
    /\ mTouchMode' = mTouchMode
    /\ mMatrix' = mMatrix
    /\ mSavedMatrix' = mSavedMatrix
    /\ mDecelerationVelocity' = mDecelerationVelocity
    /\ mLastGesture' = mLastGesture
    /\ Call("invalidate") \notin calls'
    /\ Call("calculateOffsets") \notin calls'

\* C11: a pan or pinch END or CANCELLED that arrives in touch mode NONE
\* leaves touch mode, live matrix, saved matrix, deceleration velocity and
\* last gesture unchanged and requests no redraw and no offset recalculation.
C11_TerminalWithoutBeginIsNoOp ==
    [][/\ \A e \in PanStateEvents :
             (mTouchMode = NONE /\ e.state \in {END, CANCELLED}
                /\ onPanGestureState(e)) => C11_Untouched
       /\ \A e \in PinchStateEvents :
             (mTouchMode = NONE /\ e.state \in {END, CANCELLED}
                /\ onPinchGestureState(e)) => C11_Untouched]_vars

\* C11 witness: a pinch END/CANCELLED was handled in mode NONE with no pinch
\* running: it enabled scrolling and did nothing else
C11_Witness ==
    /\ handler = "onPinchGestureState"
    /\ mTouchMode = NONE
    /\ ~pinchActive
    /\ calls = {Call("enableScroll")}
    /\ mMatrix = Identity /\ mSavedMatrix = Identity

\* C12: for the pan and for the pinch recognizer, the step the handler takes
\* for END from a state is the step it takes for CANCELLED with the same event
\* data from that state, and the other way round: touch mode, live matrix and
\* saved matrix (and every other field) come out equal.
C12_CancelledIsHandledAsEnd ==
    [][/\ \A e \in PanStateEvents :
             (e.state \in {END, CANCELLED} /\ onPanGestureState(e))
                => /\ onPanGestureState([e EXCEPT !.state = END])
                   /\ onPanGestureState([e EXCEPT !.state = CANCELLED])
       /\ \A e \in PinchStateEvents :
             (e.state \in {END, CANCELLED} /\ onPinchGestureState(e))
                => /\ onPinchGestureState([e EXCEPT !.state = END])
                   /\ onPinchGestureState([e EXCEPT !.state = CANCELLED])]_vars

\* C12 witness: a terminal pinch event closed a zoom that had changed the
\* live matrix
C12_Witness ==
    /\ handler = "onPinchGestureState"
    /\ mTouchMode = NONE
    /\ Call("calculateOffsets") \in calls
    /\ mMatrix # mSavedMatrix

\* C13: with the chart's flags fixed, whenever neither a pan nor a pinch
\* gesture is running (each one that began has delivered its terminal event)
\* the touch mode is NONE, whatever the interleaving of the two gestures was.
C13_ModeNoneAfterBothTerminals ==
    (~panActive /\ ~pinchActive) => mTouchMode = NONE

\* C13 witness: a drag has just ended on a chart that a pinch had zoomed in,
\* and no gesture is running
C13_Witness ==
    /\ handler = "onPanGestureState"
    /\ ~panActive /\ ~pinchActive
    /\ mTouchMode = NONE
    /\ InvalidateCalled
    /\ mMatrix.sx > MinScaleX

\* the 'tap' notifications among the calls of the step
C14_TapNotifications == {c \in calls' : c.name = "notify:tap"}

\* C14: on a tap END following ACTIVE, with neither a 'tap' listener nor
\* per-tap highlighting the highlighter is not queried and nothing is
\* emitted; otherwise the highlighter is queried exactly once, a 'tap'
\* notification carrying the result (possibly none) is emitted exactly when
\* a 'tap' listener is registered, and the highlight update runs exactly when
\* per-tap highlighting is enabled.  A tap event with any other state or
\* previous state does nothing.
C14_TapEnd ==
    [][\A e \in TapEvents :
          onTapGesture(e) =>
             IF e.state = END /\ e.prevState = ACTIVE
             THEN IF "tap" \notin chart.listeners /\ ~chart.highlightPerTap
                  THEN queries' = 0 /\ calls' = {}
                  ELSE /\ queries' = 1
                       /\ Call("getHighlightByTouchPoint") \in calls'
                       /\ C14_TapNotifications =
                             IF "tap" \in chart.listeners
                             THEN {Notify("tap", <<e.highlight>>)} ELSE {}
                       /\ ([name |-> "performHighlight", args |-> <<e.highlight>>]
                              \in calls') <=> chart.highlightPerTap
             ELSE /\ queries' = 0 /\ calls' = {}
                  /\ UNCHANGED listenerVars]_vars

\* C14 witness: a tap was resolved to no highlight and notified on a chart
\* without per-tap highlighting
C14_Witness ==
    /\ handler = "onTapGesture"
    /\ queries = 1
    /\ ~chart.highlightPerTap
    /\ calls = {Call("getHighlightByTouchPoint"), Notify("tap", <<Null>>)}

\* is chart.highlight among the calls of the step?
C15_Highlighted == \E c \in calls' : c.name = "highlight"

\* C15: when a touch query (a tap, or a pan move in highlight-drag) resolves
\* to the data point that is the last highlighted one, chart.highlight is not
\* invoked again: it is invoked only when the resolved highlight is not none
\* and differs from the last one.
C15_NoSpuriousRehighlight ==
    [][/\ \A e \in PanTouchEvents :
             (onPanGestureTouch(e) /\ C15_Highlighted)
                => e.highlight # Null /\ e.highlight # mLastHighlighted
       /\ \A e \in TapEvents :
             (onTapGesture(e) /\ C15_Highlighted)
                => e.highlight # Null /\ e.highlight # mLastHighlighted]_vars

\* the 'doubleTap' notifications among the calls of the step
C16_DoubleTapNotifications == {c \in calls' : c.name = "notify:doubleTap"}

\* C16 as claimed: every double-tap END following ACTIVE emits a 'doubleTap'
\* notification carrying the resolved highlight, whatever the chart's
\* double-tap-to-zoom flag and listeners are.
C16_DoubleTapAlwaysNotifies ==
    [][\A e \in TapEvents :
          (e.state = END /\ e.prevState = ACTIVE /\ onDoubleTapGesture(e))
             => Notify("doubleTap", <<e.highlight>>) \in calls']_vars

\* C16 amended: a double-tap END following ACTIVE emits a 'doubleTap'
\* notification carrying the resolved highlight exactly when a 'doubleTap'
\* listener is registered, whatever the double-tap-to-zoom flag is.
C16_DoubleTapNotifiesListeners ==
    [][\A e \in TapEvents :
          (e.state = END /\ e.prevState = ACTIVE /\ onDoubleTapGesture(e))
             => C16_DoubleTapNotifications =
                   IF "doubleTap" \in chart.listeners
                   THEN {Notify("doubleTap", <<e.highlight>>)} ELSE {}]_vars

\* C16 witness: a double tap was notified on a chart without double-tap-to-zoom
C16_Witness ==
    /\ handler = "onDoubleTapGesture"
    /\ ~chart.doubleTapToZoom
    /\ queries = 1
    /\ \E c \in calls : c.name = "notify:doubleTap"

\* the data has at least one entry
C17_HasEntry ==
    /\ chart.data # Null
    /\ \E i \in 1..Len(chart.data.sets) : chart.data.sets[i] > 0

\* the call of chart.zoom the claim gives for a double tap at the point of e
C17_Zoom(e) ==
    [name |-> "zoom",
     args |-> <<IF chart.scaleX THEN <<7, 5>> ELSE <<1, 1>>,
                IF chart.scaleY THEN <<7, 5>> ELSE <<1, 1>>,
                e.point[1] - OffsetLeft,
                IF chart.anyAxisInverted
                THEN -(e.point[2] - OffsetTop)
                ELSE -(ChartHeight - e.point[2] - OffsetBottom)>>]

\* C17: on a double-tap END following ACTIVE chart.zoom is invoked exactly
\* when double-tap-to-zoom is enabled and the data has an entry, with the
\* factor 1.4 on each axis whose scaling is enabled and 1 on the others, and
\* the pivot getTrans(tapX, tapY); touch mode and saved matrix are unchanged.
C17_DoubleTapZoom ==
    [][\A e \in TapEvents :
          (e.state = END /\ e.prevState = ACTIVE /\ onDoubleTapGesture(e))
             => /\ {c \in calls' : c.name = "zoom"} =
                      IF chart.doubleTapToZoom /\ C17_HasEntry
                      THEN {C17_Zoom(e)} ELSE {}
                /\ mTouchMode' = mTouchMode
                /\ mSavedMatrix' = mSavedMatrix]_vars

\* C17 witness: a double tap zoomed an inverted chart on the X axis only
C17_Witness ==
    /\ handler = "onDoubleTapGesture"
    /\ chart.anyAxisInverted /\ chart.scaleX /\ ~chart.scaleY
    /\ \E c \in calls : c.name = "zoom" /\ c.args[1] = <<7, 5>> /\ c.args[2] = <<1, 1>>
    /\ mMatrix.sx > MinScaleX /\ mMatrix.sy = MinScaleY

\* the tags of all listeners constructed so far
C19_AllTags == {instances[i][k] : i \in 1..Len(instances), k \in TagKinds}

\* C19: for any number of listeners constructed in one process, the tap,
\* double-tap, pinch and pan tags of all of them are pairwise distinct.
C19_TagsNeverCollide ==
    Cardinality(C19_AllTags) = 4 * Len(instances)

\* C18: with both the tap and the double-tap handler attached, the tap
\* handler waits for the tag of this listener's double-tap handler, a 'tap'
\* notification is made only when no double-tap recognition is pending (it
\* has failed), and a recognized double tap leaves no tap to deliver.
C18_BothAttached ==
    isAttached(tapGestureHandler) /\ isAttached(doubleTapGestureHandler)

C18_TapNotified ==
    /\ handler' = "onTapGesture"
    /\ \E c \in calls' : c.name = "notify:tap"

C18_Wiring ==
    C18_BothAttached => tapGestureHandler.waitFor = {doubleTapGestureHandler.tag}

C18_Order ==
    /\ (C18_BothAttached /\ C18_TapNotified) => ~doubleTapPending
    /\ (C18_BothAttached /\ handler' = "onDoubleTapGesture") => ~tapPending'

\* the claim as stated: for every chart
C18_TapWaitsForDoubleTap == [](C18_Wiring) /\ [][C18_Order]_vars

\* the claim for a chart whose tap options bring no waitFor of their own
C18_OwnWaitFor == chart.tapGestureOptions.waitFor # {}

C18_TapWaitsUnlessOverridden ==
    /\ [](C18_OwnWaitFor \/ C18_Wiring)
    /\ [][C18_OwnWaitFor \/ C18_Order]_vars

\* a single tap was notified after the double-tap window elapsed, with both
\* handlers attached and the tap handler waiting for the double-tap handler
C18_Witness ==
    /\ C18_BothAttached
    /\ ~C18_OwnWaitFor
    /\ tapWaits(tapGestureHandler, doubleTapGestureHandler)
    /\ handler = "onTapGesture"
    /\ \E c \in calls : c.name = "notify:tap"
    /\ ~doubleTapPending

\* C20: getHighlight returns none, without raising, whenever no candidate
\* qualifies (no data, no candidate, or every candidate of the winning axis
\* at or beyond the maximum highlight distance), and a candidate it returns
\* is nearer to the touch point than the maximum highlight distance.
C20_AxisMinDist(axis) ==
    LET ds == {Abs(mHighlightBuffer[i].yPx - highlightResult.y) :
                 i \in {j \in 1..Len(mHighlightBuffer) : mHighlightBuffer[j].axis = axis}}
    IN IF ds = {} THEN MAX_VALUE ELSE CHOOSE d \in ds : \A o \in ds : d <= o

C20_WinningAxis ==
    IF C20_AxisMinDist(LEFT) < C20_AxisMinDist(RIGHT) THEN LEFT ELSE RIGHT

C20_PixelDistance(h) ==
    getDistance(highlightResult.x, highlightResult.y, h.xPx, h.yPx)

C20_NoneQualifies ==
    \A i \in 1..Len(mHighlightBuffer) :
        mHighlightBuffer[i].axis = C20_WinningAxis
            => C20_PixelDistance(mHighlightBuffer[i])
                   >= maxHighlightDistance * maxHighlightDistance

C20_NoneWithoutRaising ==
    handler = "getHighlight" =>
        LET r == highlightResult.result
        IN /\ C20_NoneQualifies => r = Returned(Null)
           /\ (~r.raised /\ r.value # Null)
                  => C20_PixelDistance(r.value)
                         < maxHighlightDistance * maxHighlightDistance

\* C21: a series with highlighting disabled is never considered: every
\* candidate, and every candidate a query or the pixel search over the
\* candidates returns, belongs to a series with highlighting enabled, and
\* disabling a series removes exactly its candidates and leaves the
\* dataSetIndex of the others as it was.
C21_Enabled(h) == mData.sets[h.dataSetIndex + 1].highlightEnabled

C21_XVal == getValsForTouch(highlightResult.x, highlightResult.y).x

C21_Disabled(k) ==
    [sets |-> [mData.sets EXCEPT ![k + 1].highlightEnabled = FALSE]]

C21_DisabledNeverConsidered ==
    handler = "getHighlight" =>
        /\ \A i \in 1..Len(mHighlightBuffer) : C21_Enabled(mHighlightBuffer[i])
        /\ LET r == highlightResult.result
           IN (~r.raised /\ r.value # Null) => C21_Enabled(r.value)
        /\ \A axis \in AxisDependency \cup {"null"} :
               LET c == getClosestHighlightByPixel(mHighlightBuffer, highlightResult.x,
                            highlightResult.y, axis, maxHighlightDistance)
               IN c # Null => C21_Enabled(c)
        /\ mData # Null =>
               \A k \in 0..(Len(mData.sets) - 1) :
                   getHighlightsAtXValue(C21_Disabled(k), C21_XVal)
                       = SelectSeq(mHighlightBuffer, LAMBDA h : h.dataSetIndex # k)

\* a query on two series with entries, the first disabled: the candidates
\* are the second's, under its own index
C21_Witness ==
    /\ handler = "getHighlight"
    /\ mData # Null
    /\ Len(mData.sets) = 2
    /\ ~mData.sets[1].highlightEnabled
    /\ mData.sets[1].entries # <<>>
    /\ mData.sets[2].highlightEnabled
    /\ mHighlightBuffer # <<>>
    /\ \A i \in 1..Len(mHighlightBuffer) : mHighlightBuffer[i].dataSetIndex = 1

\* C22: a highlight-enabled series without entries contributes no candidate
\* and does not abort the query: the candidates are those of the remaining
\* series, and the query returns.
C22_EmptyEnabled(k) ==
    mData.sets[k + 1].highlightEnabled /\ mData.sets[k + 1].entries = <<>>

C22_SkipsEmptySeries ==
    (handler = "getHighlight" /\ mData # Null) =>
        \A k \in 0..(Len(mData.sets) - 1) :
            C22_EmptyEnabled(k) =>
                /\ \A i \in 1..Len(mHighlightBuffer) :
                       mHighlightBuffer[i].dataSetIndex # k
                /\ mHighlightBuffer = getHighlightsAtXValue(C21_Disabled(k), C21_XVal)

\* the query gives what it gives without the series
C22_EmptySeriesDoesNotAbort ==
    /\ C22_SkipsEmptySeries
    /\ (handler = "getHighlight" /\ mData # Null) =>
           \A k \in 0..(Len(mData.sets) - 1) :
               C22_EmptyEnabled(k) =>
                   highlightResult.result =
                       getHighlightForX(C21_Disabled(k), C21_XVal, highlightResult.x,
                                        highlightResult.y, maxHighlightDistance)

\* a query on an enabled series without entries followed by one with
\* entries: the candidates are the second's
C22_Witness ==
    /\ handler = "getHighlight"
    /\ mData # Null
    /\ Len(mData.sets) = 2
    /\ C22_EmptyEnabled(0)
    /\ mData.sets[2].highlightEnabled
    /\ mHighlightBuffer # <<>>
    /\ \A i \in 1..Len(mHighlightBuffer) : mHighlightBuffer[i].dataSetIndex = 1

\* C23: when the minimum vertical pixel distance of the left-axis candidates
\* equals that of the right-axis candidates, the left axis wins: the query
\* gives the nearest left-axis candidate within the maximum distance.
C23_HasCandidate(axis) ==
    \E i \in 1..Len(mHighlightBuffer) : mHighlightBuffer[i].axis = axis

C23_Tie ==
    /\ handler = "getHighlight"
    /\ C23_HasCandidate(LEFT)
    /\ C23_HasCandidate(RIGHT)
    /\ C20_AxisMinDist(LEFT) = C20_AxisMinDist(RIGHT)

C23_TieChoosesLeft ==
    C23_Tie =>
        /\ chooseAxis(C20_AxisMinDist(LEFT), C20_AxisMinDist(RIGHT)) = LEFT
        /\ highlightResult.result =
               Returned(getClosestHighlightByPixel(mHighlightBuffer, highlightResult.x,
                            highlightResult.y, LEFT, maxHighlightDistance))

\* C24: for a non-empty candidate list the query gives the candidate of the
\* winning axis (the axis of the smaller minimum vertical pixel distance)
\* that is nearest to the touch point, the first in scan order among equally
\* near ones, and never a candidate of the other axis.
C24_Winner ==
    IF C20_AxisMinDist(LEFT) < C20_AxisMinDist(RIGHT) THEN LEFT ELSE RIGHT

C24_OnWinner == {i \in 1..Len(mHighlightBuffer) : mHighlightBuffer[i].axis = C24_Winner}

C24_Nearest ==
    CHOOSE i \in C24_OnWinner :
        \A j \in C24_OnWinner :
            \/ C20_PixelDistance(mHighlightBuffer[i]) < C20_PixelDistance(mHighlightBuffer[j])
            \/ /\ C20_PixelDistance(mHighlightBuffer[i])
                      = C20_PixelDistance(mHighlightBuffer[j])
               /\ i <= j

C24_Decided ==
    /\ handler = "getHighlight"
    /\ mHighlightBuffer # <<>>
    /\ C20_AxisMinDist(LEFT) # C20_AxisMinDist(RIGHT)
    /\ C20_PixelDistance(mHighlightBuffer[C24_Nearest])
           < maxHighlightDistance * maxHighlightDistance

C24_NearestOnWinningAxis ==
    C24_Decided => highlightResult.result = Returned(mHighlightBuffer[C24_Nearest])

\* C25: the highlighter is deterministic: two queries at the same touch point
\* on the same data give the same outcome and the same candidates (x, y, xPx,
\* yPx, dataSetIndex, axis), whatever was queried in between.
C25_Deterministic ==
    \A a, b \in highlightResult.answers :
        (a.x = b.x /\ a.y = b.y) => (a.result = b.result /\ a.candidates = b.candidates)

\* a touch point with candidates is queried again after a query at another
\* touch point
C25_Witness ==
    /\ handler = "getHighlight"
    /\ mHighlightBuffer # <<>>
    /\ highlightResult.previous # <<>>
    /\ highlightResult.previous # <<highlightResult.x, highlightResult.y>>
    /\ highlightResult.repeated

\* C26: the candidates of a highlight-enabled series are its entries at the
\* touch's domain x-value or, if it has none there, its entries at the x of
\* the entry nearest to that value (the first in scan order among equally
\* near ones); a candidate carries the entry's x and y, their projection by
\* the transformer of the series' axis, the series' index and its axis.
C26_Entries(k) == mData.sets[k + 1].entries

C26_AtX(k) == {i \in 1..Len(C26_Entries(k)) : C26_Entries(k)[i].x * C21_XVal[2] = C21_XVal[1]}

C26_Off(k, i) == Abs(C26_Entries(k)[i].x * C21_XVal[2] - C21_XVal[1])

C26_NearestX(k) ==
    LET n == Len(C26_Entries(k))
        least == CHOOSE d \in {C26_Off(k, i) : i \in 1..n} :
                     \A i \in 1..n : d <= C26_Off(k, i)
        first == CHOOSE i \in 1..n :
                     C26_Off(k, i) = least /\ \A j \in 1..(i - 1) : C26_Off(k, j) # least
    IN C26_Entries(k)[first].x

C26_Chosen(k) ==
    IF C26_AtX(k) # {} THEN C26_AtX(k)
    ELSE IF C26_Entries(k) = <<>> THEN {}
    ELSE {i \in 1..Len(C26_Entries(k)) : C26_Entries(k)[i].x = C26_NearestX(k)}

C26_Candidate(k, i) ==
    LET e == C26_Entries(k)[i]
        axis == mData.sets[k + 1].axis
    IN [x |-> e.x, y |-> e.y, xPx |-> e.x * PxPerX, yPx |-> e.y * PxPerY(axis),
        dataSetIndex |-> k, axis |-> axis]

C26_Of(k) == SelectSeq(mHighlightBuffer, LAMBDA h : h.dataSetIndex = k)

C27_Between(k, i) ==
    /\ mData.sets[k + 1].highlightEnabled
    /\ i + 1 <= Len(C26_Entries(k))
    /\ C26_Entries(k)[i].x * C21_XVal[2] < C21_XVal[1]
    /\ C21_XVal[1] < C26_Entries(k)[i + 1].x * C21_XVal[2]

C27_IsCandidate(k, i) ==
    \E j \in 1..Len(mHighlightBuffer) : mHighlightBuffer[j] = C26_Candidate(k, i)

C27_BelowAndAbove ==
    (handler = "getHighlight" /\ mData # Null /\ Len(mData.sets) = 1) =>
        \A i \in 1..Len(C26_Entries(0)) :
            C27_Between(0, i) =>
                /\ C27_IsCandidate(0, i)
                /\ C27_IsCandidate(0, i + 1)
                /\ (highlightResult.result = Returned(C26_Candidate(0, i)))
                       <=> /\ C20_PixelDistance(C26_Candidate(0, i))
                                  < C20_PixelDistance(C26_Candidate(0, i + 1))
                           /\ C20_PixelDistance(C26_Candidate(0, i))
                                  < maxHighlightDistance * maxHighlightDistance

\* C28: the y values and the x values of the entries now in the container,
\* of the series of the given axes
C28_Present(axes) ==
    {mDataSets[k].entries[i] :
        <<k, i>> \in {p \in (1..Len(mDataSets)) \X (1..MaxEntries) :
                         /\ mDataSets[p[1]].axis \in axes
                         /\ p[2] <= Len(mDataSets[p[1]].entries)}}

C28_Min(values) ==
    IF values = {} THEN MAX_VALUE ELSE CHOOSE v \in values : \A w \in values : v <= w

C28_Max(values) ==
    IF values = {} THEN -MAX_VALUE ELSE CHOOSE v \in values : \A w \in values : v >= w

C28_Y(axes) == {e.y : e \in C28_Present(axes)}

C28_X(axes) == {e.x : e \in C28_Present(axes)}

\* C28: after every operation of the container each of its eight bounds is
\* the minimum or the maximum over the entries that are in it now, those of
\* the series of the axis for the bounds of an axis.
C28_BoundsOfPresentEntries ==
    /\ mBounds.mYMin = C28_Min(C28_Y({LEFT, RIGHT}))
    /\ mBounds.mYMax = C28_Max(C28_Y({LEFT, RIGHT}))
    /\ mBounds.mXMin = C28_Min(C28_X({LEFT, RIGHT}))
    /\ mBounds.mXMax = C28_Max(C28_X({LEFT, RIGHT}))
    /\ mBounds.mLeftAxisMin = C28_Min(C28_Y({LEFT}))
    /\ mBounds.mLeftAxisMax = C28_Max(C28_Y({LEFT}))
    /\ mBounds.mRightAxisMin = C28_Min(C28_Y({RIGHT}))
    /\ mBounds.mRightAxisMax = C28_Max(C28_Y({RIGHT}))

\* C28: an entry has been removed from a container of two series, the left
\* series keeps the entry (2, 1) alone and the right series the entry (1, 2)
C28_Witness ==
    /\ handler \in {"removeEntry", "removeEntryForXValue"}
    /\ dataReturn = "true"
    /\ Len(mDataSets) = 2
    /\ C28_Present({LEFT}) = {[x |-> 2, y |-> 1]}
    /\ C28_Present({RIGHT}) = {[x |-> 1, y |-> 2]}
    /\ mBounds.mLeftAxisMax = 1
    /\ mBounds.mYMax = 2

\* C29: the index given to the last lookup is no index of a series
C29_OutOfRange == lookupIndex < 0 \/ lookupIndex >= Len(mDataSets)

\* C29: getDataSetByIndex and getEntryForHighlight return none, without
\* raising, for every series index out of range: an index of at least the
\* number of series, a negative index, any index on an empty container.
C29_LookupsReturnNone ==
    (handler \in {"getDataSetByIndex", "getEntryForHighlight"} /\ C29_OutOfRange)
        => dataReturn = "null"

\* C30: the step is a pan move in DRAG mode
C30_DragMove ==
    /\ handler' = "onPanGestureTouch"
    /\ panActive /\ panHandlersOn
    /\ mTouchMode = DRAG
    /\ mMatrix' # mMatrix \/ calls' # calls

\* C30: the 'translate' notifications among the calls
C30_Translate(c) == {n \in c : n.name = "notify:translate"}

\* C30: the move applies (translationX, -translationY) when the touch
\* situation is inverted and (translationX, translationY) otherwise, to the
\* matrix and in the notification a listening chart is sent
C30_SignOfMove ==
    \E t \in Translations :
        LET dy == IF inverted THEN -t[2] ELSE t[2]
        IN /\ mMatrix' = refresh(PostTranslate(mSavedMatrix, t[1], dy))
           /\ C30_Translate(calls') =
                  IF "translate" \in chart.listeners
                  THEN {Notify("translate", <<t[1], dy>>)} ELSE {}

\* C30: the move before this one, of the same gesture, and this move used the
\* same inversion flag: their vertical translations are not of opposite sign
C30_SameFlag ==
    (handler = "onPanGestureTouch")
        => \A a \in C30_Translate(calls), b \in C30_Translate(calls') :
               a.args[2] * b.args[2] >= 0

\* C30: on every pan move in DRAG mode the vertical translation applied and
\* reported is -translationY when inverted and +translationY otherwise, the
\* horizontal one is +translationX, and all moves of one gesture use the same
\* inversion flag.
C30_SignAndFlagPerGesture ==
    [][C30_DragMove => (C30_SignOfMove /\ C30_SameFlag)]_vars

\* C31: the handlers on the chart view: those the listener refers to that are
\* attached, and those it dropped while they were attached
C31_OnView ==
    {handlerOf(k) : k \in {j \in TagKinds : isAttached(handlerOf(j))}} \cup leftAttached

\* C31: after dispose no handler the listener created is on the chart view
\* and its four handler references are empty, whatever init and setPan,
\* setPinch, setTap, setDoubleTap calls came before; and between two disposes
\* at most one handler of each kind is created.
C31_DisposeDetachesAndClears ==
    /\ handler = "dispose" =>
           /\ C31_OnView = {}
           /\ \A k \in TagKinds : handlerOf(k) = Null
    /\ \A k \in TagKinds : createdHandlers[k] <= 1

\* C31: dispose has run on a listener that had created all four handlers
C31_Witness ==
    /\ handler = "dispose"
    /\ calls = {[name |-> "detachFromView", args |-> <<k>>] : k \in TagKinds}

\* C32: the series is in the container
C32_Present(d) == d # Null /\ \E k \in 1..Len(mDataSets) : mDataSets[k].id = d.id

\* C32: the series list and the eight bounds are as they were
C32_Unchanged == mDataSets' = mDataSets /\ mBounds' = mBounds

\* C32: the series is no longer in the container and the others are
C32_Removed(d) ==
    /\ Len(mDataSets') = Len(mDataSets) - 1
    /\ \A k \in 1..Len(mDataSets') : mDataSets'[k].id # d.id

C32_RemoveDataSet ==
    \A d \in SeriesInside \cup OtherSeries \cup {Null} :
        removeDataSet(d) =>
            /\ dataReturn' = "true" <=> C32_Present(d)
            /\ dataReturn' = "true" => C32_Removed(d)
            /\ dataReturn' = "false" => C32_Unchanged

C32_RemoveDataSetAtIndex ==
    \A index \in DataSetIndexes :
        removeDataSetAtIndex(index) =>
            /\ dataReturn' = "true" <=> (index >= 0 /\ index < Len(mDataSets))
            /\ dataReturn' = "true" => Len(mDataSets') = Len(mDataSets) - 1
            /\ dataReturn' = "false" => C32_Unchanged

C32_AddEntry ==
    \A e \in DataEntries \cup {Null}, index \in DataSetIndexes :
        (addEntry(e, index) /\ (index < 0 \/ index >= Len(mDataSets) \/ ~seriesAccepts(e)))
            => C32_Unchanged

\* C32: removeDataSet returns true exactly when the series was in the
\* container and has been removed, removeDataSetAtIndex exactly when the index
\* is in range; when either returns false, when addEntry is given an index out
\* of range or an entry the series rejects, and when addDataSet is given no
\* series, the series list and the eight bounds stay as they are.
C32_FailedMutationsChangeNothing ==
    [][/\ C32_RemoveDataSet
       /\ C32_RemoveDataSetAtIndex
       /\ C32_AddEntry
       /\ addDataSet(Null) => C32_Unchanged]_vars

\* C32: a removal has failed on a container that holds series with entries
C32_Witness ==
    /\ handler \in {"removeDataSet", "removeDataSetAtIndex"}
    /\ dataReturn = "false"
    /\ Len(mDataSets) >= 2
    /\ mBounds.mYMax = 2

\* C33: the step runs the tap or the double-tap handler
C33_TapStep == handler' \in {"onTapGesture", "onDoubleTapGesture"}

\* C33: under pan, pinch, tap and double-tap events the touch mode is always
\* one of NONE, DRAG, X_ZOOM, Y_ZOOM, PINCH_ZOOM, never POST_ZOOM, and the
\* tap and the double-tap handler leave it as it is.
C33_ModesAndTapsKeepMode ==
    /\ mTouchMode \in {NONE, DRAG, X_ZOOM, Y_ZOOM, PINCH_ZOOM}
    /\ [][/\ mTouchMode' \in {NONE, DRAG, X_ZOOM, Y_ZOOM, PINCH_ZOOM}
          /\ C33_TapStep => mTouchMode' = mTouchMode]_vars

\* C33: a tap has been handled while the listener is dragging
C33_Witness ==
    /\ handler = "onTapGesture"
    /\ mLastGesture = SINGLE_TAP
    /\ mTouchMode = DRAG

\* C34: the step is a pan move in DRAG mode, with no pinch in progress
C34_DragMove ==
    /\ handler' = "onPanGestureTouch"
    /\ panActive /\ panHandlersOn
    /\ ~pinchActive
    /\ mTouchMode = DRAG
    /\ mMatrix' # mMatrix

\* C34: when a pinch has begun and ended while the pan gesture stays active,
\* the drag moves that follow translate the matrix the pinch produced: the
\* scale the pinch applied is kept by every drag move.
C34_DragKeepsZoom ==
    [][C34_DragMove => (mMatrix'.sx = mMatrix.sx /\ mMatrix'.sy = mMatrix.sy)]_vars

\* C35: the zoom modes
C35_Zoom == {X_ZOOM, Y_ZOOM, PINCH_ZOOM}

\* C35: while the mode is a zoom mode a pan move changes neither the live
\* matrix nor the mode, and a pan END or CANCELLED neither resets the mode nor
\* takes a deceleration velocity
C35_PanYields ==
    /\ \A e \in PanTouchEvents :
           (mTouchMode \in C35_Zoom /\ onPanGestureTouch(e))
               => (mMatrix' = mMatrix /\ mTouchMode' = mTouchMode)
    /\ \A e \in PanStateEvents :
           (mTouchMode \in C35_Zoom /\ isTerminalState(e.state) /\ onPanGestureState(e))
               => (mTouchMode' = mTouchMode
                   /\ mDecelerationVelocity' = mDecelerationVelocity)

\* C35: a pinch begin while the mode is DRAG replaces it by a zoom mode, and
\* while the mode is a zoom mode the pan events yield.
C35_PinchReplacesDrag ==
    [][/\ \A e \in PinchStateEvents :
              (mTouchMode = DRAG /\ e.state = ACTIVE /\ onPinchGestureState(e))
                  => mTouchMode' \in C35_Zoom
       /\ C35_PanYields]_vars

\* C35, amended: on a chart with X or Y scaling enabled a pinch begin while
\* the mode is DRAG replaces it by a zoom mode; on a chart with neither the
\* mode stays DRAG; and while the mode is a zoom mode the pan events yield.
C35_PinchReplacesDragWhenScalable ==
    [][/\ \A e \in PinchStateEvents :
              (mTouchMode = DRAG /\ e.state = ACTIVE /\ onPinchGestureState(e))
                  => IF isScaleXEnabled \/ isScaleYEnabled
                     THEN mTouchMode' \in C35_Zoom
                     ELSE mTouchMode' = DRAG
       /\ C35_PanYields]_vars

\* C35: a pan gesture has ended while a pinch that began in DRAG mode is in
\* progress, and the mode is still a zoom mode
C35_Witness ==
    /\ handler = "onPanGestureState"
    /\ ~panActive
    /\ pinchActive
    /\ mLastGesture = DRAG
    /\ mTouchMode \in C35_Zoom

\* C36: a pan gesture that disabled scrolling by entering DRAG, dragging or
\* highlighting, with no pinch in progress, leaves scrolling enabled once it
\* has delivered END or CANCELLED.
C36_PanEndEnablesScroll ==
    [][\A e \in PanStateEvents :
          (/\ isTerminalState(e.state)
           /\ panActive /\ ~pinchActive
           /\ ~scrollEnabled
           /\ mLastGesture = DRAG
           /\ onPanGestureState(e))
              => scrollEnabled']_vars

\* C37: the handler changed nothing of the mode, the matrices, the velocity
\* and the scroll state, and made no call on the chart
C37_Inert ==
    /\ mTouchMode' = mTouchMode
    /\ mMatrix' = mMatrix
    /\ mSavedMatrix' = mSavedMatrix
    /\ mDecelerationVelocity' = mDecelerationVelocity
    /\ scrollEnabled' = scrollEnabled
    /\ calls' = {}

C37_PanOff == ~chart.dragX /\ ~chart.dragY /\ ~chart.highlightPerDrag

C37_PinchOff == ~chart.scaleX /\ ~chart.scaleY

\* C37: with neither dragging nor highlight-per-drag enabled every pan state
\* or touch event is inert, and with neither X nor Y scaling enabled every
\* pinch state or touch event is.
C37_DisabledHandlersAreInert ==
    [][/\ \A e \in PanStateEvents : (C37_PanOff /\ onPanGestureState(e)) => C37_Inert
       /\ \A e \in PanTouchEvents : (C37_PanOff /\ onPanGestureTouch(e)) => C37_Inert
       /\ \A e \in PinchStateEvents : (C37_PinchOff /\ onPinchGestureState(e)) => C37_Inert
       /\ \A e \in PinchTouchEvents : (C37_PinchOff /\ onPinchGestureTouch(e)) => C37_Inert
      ]_vars

\* C37: a pan begin has arrived at a chart with the pan capabilities off
\* whose live matrix a pinch has changed, and the saved matrix is not the
\* live one
C37_Witness ==
    /\ C37_PanOff
    /\ handler = "onPanGestureState"
    /\ panActive
    /\ mSavedMatrix # mMatrix

\* C38: the overall y bounds are those of the two axes together, and a
\* container without series has every minimum at the largest and every
\* maximum at the smallest value.
C38_BoundsConsistent ==
    /\ mBounds.mYMin = Min2(mBounds.mLeftAxisMin, mBounds.mRightAxisMin)
    /\ mBounds.mYMax = Max2(mBounds.mLeftAxisMax, mBounds.mRightAxisMax)
    /\ mDataSets = <<>> =>
           /\ mBounds.mYMin = MAX_VALUE /\ mBounds.mYMax = -MAX_VALUE
           /\ mBounds.mXMin = MAX_VALUE /\ mBounds.mXMax = -MAX_VALUE
           /\ mBounds.mLeftAxisMin = MAX_VALUE /\ mBounds.mLeftAxisMax = -MAX_VALUE
           /\ mBounds.mRightAxisMin = MAX_VALUE /\ mBounds.mRightAxisMax = -MAX_VALUE

\* C38: an entry has been added to a container whose axes differ in their
\* bounds
C38_Witness ==
    /\ handler = "addEntry"
    /\ mBounds.mLeftAxisMax = 1
    /\ mBounds.mRightAxisMin = 2
    /\ mBounds.mYMin = 1
    /\ mBounds.mYMax = 2

(***************************************************************************)
(* The recomputation of the y bounds over a range of x (autoscale), and a  *)
(* container that is only added to between such recomputations.            *)
(***************************************************************************)
\* the entries whose x lies in the range, in their order
RECURSIVE entriesInRange(_, _, _)
entriesInRange(entries, fromX, toX) ==
    IF entries = <<>> THEN <<>>
    ELSE IF fromX <= Head(entries).x /\ Head(entries).x <= toX
         THEN <<Head(entries)>> \o entriesInRange(Tail(entries), fromX, toX)
         ELSE entriesInRange(Tail(entries), fromX, toX)

\* DataSet.calcMinMaxYRange: the series' y bounds become those of its
\* entries in the range; its x bounds stay
seriesCalcMinMaxYRange(set, fromX, toX) ==
    LET b == seriesBounds(entriesInRange(set.entries, fromX, toX))
    IN [set EXCEPT !.bounds.yMin = b.yMin, !.bounds.yMax = b.yMax]

\* mutant: the series recompute their bounds and the container keeps its own
calcMinMaxYRangeSeriesOnly(fromX, toX) ==
    /\ mDataSets' = [k \in 1..Len(mDataSets) |->
                         seriesCalcMinMaxYRange(mDataSets[k], fromX, toX)]
    /\ UNCHANGED mBounds
    /\ containerOnly("calcMinMaxYRange", "undefined")

\* lines 99-106
calcMinMaxYRange(fromX, toX) ==
    /\ mDataSets' = [k \in 1..Len(mDataSets) |->
                         seriesCalcMinMaxYRange(mDataSets[k], fromX, toX)]
    /\ mBounds' = calcMinMax(mBounds, mDataSets')
    /\ containerOnly("calcMinMaxYRange", "undefined")

\* the ends of the ranges: the x of the entries and one value below them
RangeXs == {0} \cup {e.x : e \in DataEntries}

NextRange ==
    \/ \E d \in OtherSeries \cup {Null} : addDataSet(d)
    \/ \E e \in DataEntries \cup {Null}, index \in DataSetIndexes : addEntry(e, index)
    \/ \E fromX, toX \in RangeXs : fromX <= toX /\ calcMinMaxYRange(fromX, toX)

SpecRange == InitData /\ [][NextRange]_vars

\* a series whose y bounds are not those of all its entries
C39_RangeLimited(d) ==
    \/ d.bounds.yMin # seriesBounds(d.entries).yMin
    \/ d.bounds.yMax # seriesBounds(d.entries).yMax

\* C39: after addDataSet and after addEntry, also when a recomputation over
\* a range came before, the eight bounds of the container are those a full
\* recomputation gives from the series as they are.
C39_IncrementalIsFull ==
    [][handler' \in {"addDataSet", "addEntry"} =>
           mBounds' = calcMinMax(mBounds', mDataSets')]_vars

\* C39: an entry has been added to a series that a recomputation over a
\* range left with narrower bounds than its entries have
C39_Witness ==
    /\ handler = "addEntry"
    /\ dataReturn = "undefined"
    /\ \E k \in 1..Len(mDataSets) :
           /\ Len(mDataSets[k].entries) = 3
           /\ C39_RangeLimited(mDataSets[k])
    /\ mBounds.mYMax = 1

(***************************************************************************)
(* One x axis renderer that draws the grid lines of an axis whose entries  *)
(* and switches change between the frames.                                 *)
(***************************************************************************)
NextRender ==
    \/ \E entries \in AxisEntryLists : computeAxisValues(entries)
    \/ \E enabled \in BOOLEAN : setEnabled(enabled)
    \/ \E enabled \in BOOLEAN : setDrawGridLines(enabled)
    \/ canvasSave
    \/ canvasRestore
    \/ renderGridLines

SpecRender == InitData /\ [][NextRender]_vars

\* the grid lines of the axis: one at the pixel x of each entry, inside the
\* grid's clip
C40_LinesOfEntries(axis) ==
    [k \in 1..axis.mEntryCount |->
        [x |-> getPixelForValues(LEFT, axis.mEntries[k], 0).x, clip |-> "grid"]]

\* C40: with the axis and its grid lines enabled, renderGridLines draws one
\* grid line for each entry of the axis, at the entry's pixel x, and leaves
\* the canvas' saved states and clip as they were.
C40_OneLinePerEntry ==
    [][(handler' = "renderGridLines" /\ mXAxis.enabled /\ mXAxis.drawGridLines) =>
           /\ canvas'.paths = C40_LinesOfEntries(mXAxis)
           /\ canvas'.stack = canvas.stack
           /\ canvas'.clip = canvas.clip]_vars

\* renderGridLines leaves the canvas' saved states and clip as they were
RenderRestoresCanvas ==
    [][handler' = "renderGridLines" =>
           canvas'.stack = canvas.stack /\ canvas'.clip = canvas.clip]_vars

\* renderGridLines draws no line and its buffer stays empty
RenderDrawsNothing ==
    /\ mRenderGridLinesBuffer = <<>>
    /\ canvas.paths = <<>>

=============================================================================
